---- MODULE Spec2Model ----
(***************************************************************************)
(* A model of herculas/vc-suite-ecdsa: the ecdsa-rdfc-2019, ecdsa-jcs-2019 *)
(* and ecdsa-sd-2023 data integrity suites.                                *)
(*                                                                         *)
(* Byte arrays (Uint8Array) are sequences of integers 0..255.  Strings are *)
(* sequences of ASCII codes, so TextEncoder.encode is the identity on the  *)
(* codes of an ASCII string.  A function of the program that can throw     *)
(* returns a record [err |-> kind, val |-> value]: err = NoErr when it     *)
(* returned, otherwise the kind of the error raised.                       *)
(***************************************************************************)
EXTENDS Integers, Sequences, FiniteSets, TLC

VARIABLES
    codec,      \* a proof value on its way through serialize and parse
    rj,         \* a document on its way through ecdsa-rdfc-2019 / ecdsa-jcs-2019
    sd,         \* a document on its way through ecdsa-sd-2023
    oracle,     \* the digests, MACs and signatures computed so far
    kp          \* key material, a key or a keypair on its way through key/

vars == <<codec, rj, sd, oracle, kp>>

Idle == [pc |-> "idle"]

(***************************************************************************)
(* Results and errors.                                                     *)
(***************************************************************************)
NoErr == "none"
Ok(v) == [err |-> NoErr, val |-> v]
Err(e) == [err |-> e, val |-> <<>>]
IsOk(r) == r.err = NoErr

\* F applied to the value of v, which is computed once.
Bind(v, F(_)) == CHOOSE r \in { F(x) : x \in {v} } : TRUE

PROOF_VERIFICATION_ERROR == "PROOF_VERIFICATION_ERROR"
PROOF_GENERATION_ERROR == "PROOF_GENERATION_ERROR"
PROOF_TRANSFORMATION_ERROR == "PROOF_TRANSFORMATION_ERROR"
INVALID_VERIFICATION_METHOD == "INVALID_VERIFICATION_METHOD"
DECODING_ERROR == "DECODING_ERROR"
ENCODING_ERROR == "ENCODING_ERROR"
ASSERTION_ERROR == "AssertionError"

(***************************************************************************)
(* Sequences of bytes.                                                     *)
(***************************************************************************)
Min(a, b) == IF a < b THEN a ELSE b
Max(a, b) == IF a > b THEN a ELSE b

Fill(n, b) == [i \in 1..n |-> b]

\* Uint8Array.prototype.slice(from, to): 0-based, end exclusive, clamped.
Slice(s, from, to) == SubSeq(s, Min(from, Len(s)) + 1, Min(to, Len(s)))

\* Array.prototype.every((byte, index) => byte === other[index]) over `s`:
\* an index beyond `other` reads undefined, which equals no byte.
EveryEqual(s, other) ==
    \A i \in 1..Len(s) : i <= Len(other) /\ s[i] = other[i]

RECURSIVE Concat(_)
Concat(ss) == IF ss = <<>> THEN <<>> ELSE Head(ss) \o Concat(Tail(ss))

StartsWith(s, p) == Len(s) >= Len(p) /\ SubSeq(s, 1, Len(p)) = p

(***************************************************************************)
(* ASCII: "u" is 117, "z" 122, "0".."9" 48..57, "-" 45, "+" 43, " " 32.    *)
(***************************************************************************)
IsDigit(c) == c >= 48 /\ c <= 57

(***************************************************************************)
(* multi.base64urlnopad of @herculas/vc-data-integrity: RFC 4648 section 5 *)
(* without padding, the encoded form prefixed with "u".  The decoder       *)
(* rejects a string without the prefix, a character outside the alphabet,  *)
(* an impossible length and non-zero trailing bits.                        *)
(***************************************************************************)
B64Char(v) ==
    IF v < 26 THEN 65 + v
    ELSE IF v < 52 THEN 97 + (v - 26)
    ELSE IF v < 62 THEN 48 + (v - 52)
    ELSE IF v = 62 THEN 45 ELSE 95

B64Val(c) ==
    IF c >= 65 /\ c <= 90 THEN c - 65
    ELSE IF c >= 97 /\ c <= 122 THEN c - 97 + 26
    ELSE IF c >= 48 /\ c <= 57 THEN c - 48 + 52
    ELSE IF c = 45 THEN 62
    ELSE IF c = 95 THEN 63 ELSE -1

Pow2(k) == CASE k = 0 -> 1 [] k = 1 -> 2 [] k = 2 -> 4 [] k = 3 -> 8
             [] k = 4 -> 16 [] k = 5 -> 32 [] k = 6 -> 64 [] k = 7 -> 128
             [] k = 8 -> 256 [] k = 9 -> 512 [] k = 10 -> 1024

B64Body(bytes) ==
    LET n == Len(bytes)
        m == (n * 8 + 5) \div 6
        sextet(j) ==
            LET o == (j - 1) * 6
                bi == (o \div 8) + 1
                r == o % 8
                w == bytes[bi] * 256 + (IF bi + 1 <= n THEN bytes[bi + 1] ELSE 0)
            IN (w \div Pow2(10 - r)) % 64
    IN [j \in 1..m |-> B64Char(sextet(j))]

base64urlnopad_encode(bytes) == <<117>> \o B64Body(bytes)

base64urlnopad_decode(str) ==
    IF Len(str) = 0 \/ str[1] # 117 THEN Err(DECODING_ERROR)
    ELSE
      LET body == Tail(str)
          m == Len(body)
          n == (m * 6) \div 8
          val(j) == B64Val(body[j])
          spare == m * 6 - n * 8
          byte(i) ==
              LET o == (i - 1) * 8
                  ci == (o \div 6) + 1
                  r == o % 6
                  w == val(ci) * 64 + val(ci + 1)
              IN (w \div Pow2(4 - r)) % 256
      IN IF \E j \in 1..m : val(j) < 0 THEN Err(DECODING_ERROR)
         ELSE IF m % 4 = 1 THEN Err(DECODING_ERROR)
         ELSE IF m > 0 /\ val(m) % Pow2(spare) # 0 THEN Err(DECODING_ERROR)
         ELSE Ok([i \in 1..n |-> byte(i)])

(***************************************************************************)
(* multi.base58btc of @herculas/vc-data-integrity: the bytes read as one   *)
(* big-endian number written in base 58 with the Bitcoin alphabet, one "1" *)
(* for every leading zero byte, the whole prefixed with "z".               *)
(***************************************************************************)
B58Alphabet ==
    << 49, 50, 51, 52, 53, 54, 55, 56, 57,
       65, 66, 67, 68, 69, 70, 71, 72, 74, 75, 76, 77, 78, 80, 81, 82, 83, 84,
       85, 86, 87, 88, 89, 90,
       97, 98, 99, 100, 101, 102, 103, 104, 105, 106, 107, 109, 110, 111, 112,
       113, 114, 115, 116, 117, 118, 119, 120, 121, 122 >>

B58Val(c) ==
    IF \E i \in 1..58 : B58Alphabet[i] = c
    THEN (CHOOSE i \in 1..58 : B58Alphabet[i] = c) - 1
    ELSE -1

RECURSIVE LeadingZeros(_)
LeadingZeros(ds) ==
    IF ds # <<>> /\ Head(ds) = 0 THEN 1 + LeadingZeros(Tail(ds)) ELSE 0

StripZeros(ds) == SubSeq(ds, LeadingZeros(ds) + 1, Len(ds))

\* Long division of the number with digits ds in base `from` by `to`.
RECURSIVE LongDiv(_, _, _, _, _)
LongDiv(ds, from, to, rem, quot) ==
    IF ds = <<>> THEN [q |-> quot, r |-> rem]
    ELSE LET cur == rem * from + Head(ds)
         IN LongDiv(Tail(ds), from, to, cur % to, Append(quot, cur \div to))

RECURSIVE ConvertBase(_, _, _)
ConvertBase(ds, from, to) ==
    IF ds = <<>> THEN <<>>
    ELSE LET d == LongDiv(ds, from, to, 0, <<>>)
         IN Append(ConvertBase(StripZeros(d.q), from, to), d.r)

\* The digits ds of base b taken two by two from the right: digits of b * b.
PackPairs(ds, b) ==
    LET padded == IF Len(ds) % 2 = 1 THEN <<0>> \o ds ELSE ds
    IN [i \in 1..(Len(padded) \div 2) |-> padded[2 * i - 1] * b + padded[2 * i]]

\* The digits ds of base b * b written as digits of base b.
UnpackPairs(ds, b) ==
    StripZeros([i \in 1..(2 * Len(ds)) |->
                  IF i % 2 = 1 THEN ds[(i + 1) \div 2] \div b ELSE ds[i \div 2] % b])

\* The number with digits ds in base `from`, as digits in base `to`.
ToBase(ds, from, to) ==
    UnpackPairs(ConvertBase(StripZeros(PackPairs(ds, from)), from * from, to * to), to)

base58btc_encode(bytes) ==
    LET z == LeadingZeros(bytes)
        digits == ToBase(StripZeros(bytes), 256, 58)
    IN <<122>> \o Fill(z, 49) \o [i \in 1..Len(digits) |-> B58Alphabet[digits[i] + 1]]

base58btc_decode(str) ==
    IF str = <<>> \/ Head(str) # 122 THEN Err(DECODING_ERROR)
    ELSE
      LET body == Tail(str)
          vals == [i \in 1..Len(body) |-> B58Val(body[i])]
      IN IF \E i \in 1..Len(vals) : vals[i] < 0 THEN Err(DECODING_ERROR)
         ELSE Ok(Fill(LeadingZeros(vals), 0) \o ToBase(StripZeros(vals), 58, 256))

(***************************************************************************)
(* JavaScript values as the suite passes them to and gets them from cbor2: *)
(* a value carries its runtime type.                                       *)
(***************************************************************************)
U8(b) == [t |-> "u8", v |-> b]                \* Uint8Array
Num(n) == [t |-> "int", v |-> n]              \* an integral number
Str(s) == [t |-> "str", v |-> s]              \* string
Arr(xs) == [t |-> "arr", v |-> xs]            \* Array
MapOf(ps) == [t |-> "map", v |-> ps]          \* Map, entries in insertion order

\* utils/guard.ts: isUint8Array(value) and isUint8Array(value, length).
isUint8Array(value) == value.t = "u8"
isUint8ArrayOf(value, length) == value.t = "u8" /\ Len(value.v) = length
isString(value) == value.t = "str"
IsArray(value) == value.t = "arr"
IsMap(value) == value.t = "map"
NumberIsInteger(value) == value.t = "int"

(***************************************************************************)
(* cbor2 encode and decode (RFC 8949) for the data model the suite uses:   *)
(* integers, byte strings, text strings, arrays and maps, with heads of    *)
(* one, two or three bytes.  Anything else in the input, and input left    *)
(* over after the item, makes decode throw.                                *)
(***************************************************************************)
CborHead(major, n) ==
    IF n < 24 THEN <<major * 32 + n>>
    ELSE IF n < 256 THEN <<major * 32 + 24, n>>
    ELSE <<major * 32 + 25, n \div 256, n % 256>>

RECURSIVE CborEncode(_)
CborEncode(x) ==
    CASE x.t = "int" ->
           IF x.v >= 0 THEN CborHead(0, x.v) ELSE CborHead(1, (-1) - x.v)
      [] x.t = "u8" -> CborHead(2, Len(x.v)) \o x.v
      [] x.t = "str" -> CborHead(3, Len(x.v)) \o x.v
      [] x.t = "arr" ->
           CborHead(4, Len(x.v)) \o Concat([i \in 1..Len(x.v) |-> CborEncode(x.v[i])])
      [] x.t = "map" ->
           CborHead(5, Len(x.v)) \o
           Concat([i \in 1..Len(x.v) |->
                      CborEncode(x.v[i][1]) \o CborEncode(x.v[i][2])])

CborFail == [ok |-> FALSE, item |-> Num(0), np |-> 0]
CborNone == [ok |-> FALSE, items |-> <<>>, np |-> 0]

RECURSIVE CborDecodeAt(_, _)
RECURSIVE CborDecodeItems(_, _, _)
RECURSIVE CborDecodePairs(_, _, _)

\* The item that starts at position p of b, and the position after it.
CborDecodeAt(b, p) ==
    IF p > Len(b) THEN CborFail
    ELSE
      LET major == b[p] \div 32
          ai == b[p] % 32
          hlen == IF ai < 24 THEN 1 ELSE IF ai = 24 THEN 2 ELSE IF ai = 25 THEN 3 ELSE 0
      IN IF hlen = 0 \/ p + hlen - 1 > Len(b) \/ major > 5 THEN CborFail
         ELSE
           LET arg == IF ai < 24 THEN ai
                      ELSE IF ai = 24 THEN b[p + 1]
                      ELSE b[p + 1] * 256 + b[p + 2]
               q == p + hlen
           IN CASE major = 0 -> [ok |-> TRUE, item |-> Num(arg), np |-> q]
                [] major = 1 -> [ok |-> TRUE, item |-> Num((-1) - arg), np |-> q]
                [] major = 2 ->
                     IF q + arg - 1 > Len(b) THEN CborFail
                     ELSE [ok |-> TRUE, item |-> U8(SubSeq(b, q, q + arg - 1)), np |-> q + arg]
                [] major = 3 ->
                     IF q + arg - 1 > Len(b) THEN CborFail
                     ELSE [ok |-> TRUE, item |-> Str(SubSeq(b, q, q + arg - 1)), np |-> q + arg]
                [] major = 4 ->
                     Bind(CborDecodeItems(b, q, arg),
                          LAMBDA r : IF r.ok
                                     THEN [ok |-> TRUE, item |-> Arr(r.items), np |-> r.np]
                                     ELSE CborFail)
                [] major = 5 ->
                     Bind(CborDecodePairs(b, q, arg),
                          LAMBDA r : IF r.ok
                                     THEN [ok |-> TRUE, item |-> MapOf(r.items), np |-> r.np]
                                     ELSE CborFail)

CborDecodeItems(b, p, n) ==
    IF n = 0 THEN [ok |-> TRUE, items |-> <<>>, np |-> p]
    ELSE IF p > Len(b) THEN CborNone
    ELSE Bind(CborDecodeAt(b, p), LAMBDA first :
           IF ~first.ok THEN CborNone
           ELSE Bind(CborDecodeItems(b, first.np, n - 1), LAMBDA rest :
                  IF ~rest.ok THEN rest
                  ELSE [ok |-> TRUE, items |-> <<first.item>> \o rest.items,
                        np |-> rest.np]))

CborDecodePairs(b, p, n) ==
    IF n = 0 THEN [ok |-> TRUE, items |-> <<>>, np |-> p]
    ELSE IF p > Len(b) THEN CborNone
    ELSE Bind(CborDecodeAt(b, p), LAMBDA k :
           IF ~k.ok THEN CborNone
           ELSE Bind(CborDecodeAt(b, k.np), LAMBDA v :
                  IF ~v.ok THEN CborNone
                  ELSE Bind(CborDecodePairs(b, v.np, n - 1), LAMBDA rest :
                         IF ~rest.ok THEN rest
                         ELSE [ok |-> TRUE,
                               items |-> <<<<k.item, v.item>>>> \o rest.items,
                               np |-> rest.np])))

cbor_decode(b) ==
    Bind(CborDecodeAt(b, 1),
         LAMBDA r : IF r.ok /\ r.np = Len(b) + 1 THEN Ok(r.item) ELSE Err("CborError"))

(***************************************************************************)
(* constant/curve.ts, constant/suite.ts, constant/prefix.ts, utils/crypto  *)
(***************************************************************************)
P256 == "P-256"
P384 == "P-384"
Curves == {P256, P384}

GENERAL_PROOF_TYPE == "DataIntegrityProof"
SUITE_RDFC == "ecdsa-rdfc-2019"
SUITE_JCS == "ecdsa-jcs-2019"
SUITE_SD == "ecdsa-sd-2023"
KEYPAIR_DOCUMENT_TYPE_MULTI == "Multikey"
KEYPAIR_DOCUMENT_TYPE_JWK == "JsonWebKey"

KEY_UNCOMPRESSED_LENGTH(flag, curve) ==
    IF flag = "public" THEN (IF curve = P256 THEN 64 ELSE 96)
    ELSE (IF curve = P256 THEN 32 ELSE 48)

KEY_COMPRESSED_LENGTH(flag, curve) ==
    IF flag = "public" THEN (IF curve = P256 THEN 33 ELSE 49)
    ELSE (IF curve = P256 THEN 32 ELSE 48)

\* PREFIX_CONSTANT.MULTIBASE: 8024, 8124 (public), 8626, 8726 (private).
MULTIBASE(flag, curve) ==
    IF flag = "public" THEN (IF curve = P256 THEN <<128, 36>> ELSE <<129, 36>>)
    ELSE (IF curve = P256 THEN <<134, 38>> ELSE <<135, 38>>)

\* constant/prefix.ts: the DER prefixes of SPKI and PKCS#8 documents.
\* hexToBytes("3059301306072a8648ce3d020106082a8648ce3d03010703420004")
PUBLIC_KEY_UNCOMPRESSED_256 ==
    <<48, 89, 48, 19, 6, 7, 42, 134, 72, 206, 61, 2, 1, 6, 8, 42, 134, 72,
      206, 61, 3, 1, 7, 3, 66, 0, 4>>
\* hexToBytes("3076301006072a8648ce3d020106052b8104002203620004")
PUBLIC_KEY_UNCOMPRESSED_384 ==
    <<48, 118, 48, 16, 6, 7, 42, 134, 72, 206, 61, 2, 1, 6, 5, 43, 129, 4, 0,
      34, 3, 98, 0, 4>>
\* hexToBytes("3039301306072a8648ce3d020106082a8648ce3d030107032200")
PUBLIC_KEY_COMPRESSED_256 ==
    <<48, 57, 48, 19, 6, 7, 42, 134, 72, 206, 61, 2, 1, 6, 8, 42, 134, 72,
      206, 61, 3, 1, 7, 3, 34, 0>>
\* hexToBytes("3046301006072a8648ce3d020106052b81040022033200")
PUBLIC_KEY_COMPRESSED_384 ==
    <<48, 70, 48, 16, 6, 7, 42, 134, 72, 206, 61, 2, 1, 6, 5, 43, 129, 4, 0,
      34, 3, 50, 0>>
\* hexToBytes("308187020100301306072a8648ce3d020106082a8648ce3d030107046d306b0201010420")
PRIVATE_KEY_UNCOMPRESSED_256 ==
    <<48, 129, 135, 2, 1, 0, 48, 19, 6, 7, 42, 134, 72, 206, 61, 2, 1, 6, 8,
      42, 134, 72, 206, 61, 3, 1, 7, 4, 109, 48, 107, 2, 1, 1, 4, 32>>
\* hexToBytes("3081b6020100301006072a8648ce3d020106052b8104002204819e30819b0201010430")
PRIVATE_KEY_UNCOMPRESSED_384 ==
    <<48, 129, 182, 2, 1, 0, 48, 16, 6, 7, 42, 134, 72, 206, 61, 2, 1, 6, 5,
      43, 129, 4, 0, 34, 4, 129, 158, 48, 129, 155, 2, 1, 1, 4, 48>>

DER_UNCOMPRESSED(flag, curve) ==
    IF flag = "public"
    THEN (IF curve = P256 THEN PUBLIC_KEY_UNCOMPRESSED_256 ELSE PUBLIC_KEY_UNCOMPRESSED_384)
    ELSE (IF curve = P256 THEN PRIVATE_KEY_UNCOMPRESSED_256 ELSE PRIVATE_KEY_UNCOMPRESSED_384)

KEY_FORMAT(flag) == IF flag = "public" THEN "spki" ELSE "pkcs8"
KEY_MATERIAL_FOOTER_LENGTH == 6

curveToDigestAlgorithm(curve) ==
    CASE curve = P256 -> Ok("SHA-256")
      [] curve = P384 -> Ok("SHA-384")
      [] OTHER -> Err(ENCODING_ERROR)

DigestLength(algorithm) == IF algorithm = "SHA-256" THEN 32 ELSE 48

(***************************************************************************)
(* WebCrypto.  Hash functions, HMAC and ECDSA are ideal: what they have    *)
(* computed is recorded in `oracle`, and the bytes they return name the    *)
(* record.  Two digests or MACs are equal exactly when algorithm, key and  *)
(* message are; every ECDSA signature is new, and verifies exactly for the *)
(* key, hash and message it was made for.  A function that computes one    *)
(* takes the oracle `o` and returns the oracle it leaves in the field o.   *)
(***************************************************************************)
OkO(o, v) == [err |-> NoErr, val |-> v, o |-> o]
ErrO(o, e) == [err |-> e, val |-> <<>>, o |-> o]

\* A message: a canonical text (a sequence of lines) UTF-8 encoded, or bytes.
TextEncode(lines) == [text |-> lines, bytes |-> <<>>]
RawBytes(b) == [text |-> <<>>, bytes |-> b]

OracleBytes(i, n) == [j \in 1..n |-> (i * 37 + j * 11) % 256]

OracleFind(o, e) ==
    IF \E i \in 1..Len(o) : o[i] = e THEN CHOOSE i \in 1..Len(o) : o[i] = e ELSE 0

OracleAsk(o, e, n) ==
    Bind(OracleFind(o, e),
         LAMBDA i : IF i > 0 THEN OkO(o, OracleBytes(i, n))
                    ELSE OkO(Append(o, e), OracleBytes(Len(o) + 1, n)))

\* crypto.subtle.digest(algorithm, data)
subtle_digest(o, algorithm, data) ==
    OracleAsk(o, [kind |-> "digest", key |-> <<>>, alg |-> algorithm, msg |-> data],
              DigestLength(algorithm))

\* crypto.subtle.sign("HMAC", key, data) for an HMAC key of hash `algorithm`
subtle_hmac(o, algorithm, rawKey, data) ==
    OracleAsk(o, [kind |-> "hmac", key |-> rawKey, alg |-> algorithm, msg |-> data],
              DigestLength(algorithm))

\* The elliptic curves: the key pairs 1..4 stand for the points the model
\* uses, number 2 on P-384 and the others on P-256.
KeyIds == 1..4
KeyCurve(k) == IF k = 2 THEN P384 ELSE P256
CoordLength(curve) == IF curve = P256 THEN 32 ELSE 48
KeyX(k) == [j \in 1..CoordLength(KeyCurve(k)) |-> (k * 29 + j) % 256]
KeyY(k) == [j \in 1..CoordLength(KeyCurve(k)) |-> (k * 31 + j * 3) % 256]
KeyD(k) == [j \in 1..CoordLength(KeyCurve(k)) |-> (k * 41 + j * 5) % 256]

\* A CryptoKey: type "public" with the point (x, y), or "private" with d.
NoKey == [type |-> "none", curve |-> "", x |-> <<>>, y |-> <<>>, d |-> <<>>]
PublicCryptoKey(curve, x, y) ==
    [type |-> "public", curve |-> curve, x |-> x, y |-> y, d |-> <<>>]
PrivateCryptoKey(curve, d) ==
    [type |-> "private", curve |-> curve, x |-> <<>>, y |-> <<>>, d |-> d]

\* The point x || y of the private scalar d.
PublicPoint(curve, d) ==
    IF \E k \in KeyIds : KeyCurve(k) = curve /\ KeyD(k) = d
    THEN LET k == CHOOSE k \in KeyIds : KeyCurve(k) = curve /\ KeyD(k) = d
         IN KeyX(k) \o KeyY(k)
    ELSE Fill(2 * CoordLength(curve), 254)

\* The other point with the same x: its y has the opposite parity.
NegateY(y) ==
    [y EXCEPT ![Len(y)] = IF y[Len(y)] % 2 = 0 THEN y[Len(y)] + 1 ELSE y[Len(y)] - 1]

\* The y of the compressed point (sign, x), where sign is 2 (even y) or 3;
\* an x that is no coordinate of a point of the curve has none.  For an x
\* other than those of KeyIds, the curve equation is stood for by the parity
\* of the first byte.
Decompress(curve, sign, x) ==
    IF sign \notin {2, 3} \/ Len(x) # CoordLength(curve) THEN Err("DataError")
    ELSE IF \E k \in KeyIds : KeyCurve(k) = curve /\ KeyX(k) = x
    THEN LET k == CHOOSE k \in KeyIds : KeyCurve(k) = curve /\ KeyX(k) = x
         IN Ok(IF KeyY(k)[Len(x)] % 2 = sign % 2 THEN KeyY(k) ELSE NegateY(KeyY(k)))
    ELSE IF x[1] % 2 = 0 THEN Ok(Fill(Len(x) - 1, 0) \o <<sign - 2>>)
    ELSE Err("DataError")

\* crypto.subtle.sign({name: "ECDSA", hash}, privateKey, data)
subtle_sign(o, algorithm, privateKey, data) ==
    LET e == [kind |-> "sig", key |-> PublicPoint(privateKey.curve, privateKey.d),
              alg |-> algorithm, msg |-> data]
    IN OkO(Append(o, e), OracleBytes(Len(o) + 1, 2 * CoordLength(privateKey.curve)))

\* crypto.subtle.verify({name: "ECDSA", hash}, publicKey, signature, data)
subtle_verify(o, algorithm, publicKey, signature, data) ==
    \E i \in 1..Len(o) :
      /\ o[i].kind = "sig"
      /\ signature = OracleBytes(i, 2 * CoordLength(publicKey.curve))
      /\ o[i].key = publicKey.x \o publicKey.y
      /\ o[i].alg = algorithm
      /\ o[i].msg = data

\* utils/crypto.ts: the hasher constructHasher(curve) returns, applied to data.
constructHasher(o, curve, data) ==
    IF curve \notin Curves THEN ErrO(o, ENCODING_ERROR)
    ELSE subtle_digest(o, curveToDigestAlgorithm(curve).val, data)

(***************************************************************************)
(* key/core.ts, key/keypair.ts                                             *)
(***************************************************************************)
\* crypto.subtle.exportKey(format, key) of Web Crypto: the SPKI document of a
\* public key holds the uncompressed point, the PKCS#8 document of a private
\* key its scalar and, after a footer of six bytes, its public point.  A key
\* of the other type is refused.
PrivateFooter(curve) ==
    IF curve = P256 THEN <<161, 68, 3, 66, 0, 4>> ELSE <<161, 100, 3, 98, 0, 4>>

exportKey(format, key) ==
    IF format = "spki"
    THEN (IF key.type # "public" THEN Err("InvalidAccessError")
          ELSE Ok(DER_UNCOMPRESSED("public", key.curve) \o key.x \o key.y))
    ELSE (IF key.type # "private" THEN Err("InvalidAccessError")
          ELSE Ok(DER_UNCOMPRESSED("private", key.curve) \o key.d
                    \o PrivateFooter(key.curve) \o PublicPoint(key.curve, key.d)))

\* keyToMaterial accepting a document with the right prefix whatever its
\* length.
keyToMaterialOf_lengthUnchecked(key, derMaterialBuffer, flag, curve) ==
    IF key.curve # curve THEN Err(ENCODING_ERROR)
    ELSE IF flag \notin {"public", "private"} \/ curve \notin Curves
    THEN Err("INVALID_KEYPAIR_CONTENT")
    ELSE IF ~IsOk(derMaterialBuffer) THEN derMaterialBuffer
    ELSE
      LET derPrefix == DER_UNCOMPRESSED(flag, curve)
          materialLength == KEY_UNCOMPRESSED_LENGTH(flag, curve)
          derMaterial == derMaterialBuffer.val
          realPrefix == Slice(derMaterial, 0, Len(derPrefix))
      IN IF ~(\A index \in 1..Len(realPrefix) : realPrefix[index] = derPrefix[index])
         THEN Err(ENCODING_ERROR)
         ELSE Ok(Slice(derMaterial, Len(derPrefix), Len(derPrefix) + materialLength))

\* keyToMaterial(key, flag, curve), where derMaterialBuffer is what
\* crypto.subtle.exportKey(keyFormat, key) answers.
keyToMaterialOf(key, derMaterialBuffer, flag, curve) ==
    IF key.curve # curve THEN Err(ENCODING_ERROR)
    ELSE IF flag \notin {"public", "private"} \/ curve \notin Curves
    THEN Err("INVALID_KEYPAIR_CONTENT")
    ELSE IF ~IsOk(derMaterialBuffer) THEN derMaterialBuffer
    ELSE
      LET derPrefix == DER_UNCOMPRESSED(flag, curve)
          materialLength == KEY_UNCOMPRESSED_LENGTH(flag, curve)
          publicMaterialLength == KEY_UNCOMPRESSED_LENGTH("public", curve)
          privateMaterialLength == KEY_UNCOMPRESSED_LENGTH("private", curve)
          derMaterial == derMaterialBuffer.val
          realPrefix == Slice(derMaterial, 0, Len(derPrefix))
          expectedFullLength ==
            Len(derPrefix) + publicMaterialLength
              + (IF flag = "private"
                 THEN privateMaterialLength + KEY_MATERIAL_FOOTER_LENGTH ELSE 0)
      IN IF ~(\A index \in 1..Len(realPrefix) : realPrefix[index] = derPrefix[index])
         THEN Err(ENCODING_ERROR)
         ELSE IF Len(derMaterial) # expectedFullLength THEN Err("KEYPAIR_EXPORT_ERROR")
         ELSE Ok(Slice(derMaterial, Len(derPrefix), Len(derPrefix) + materialLength))

\* keyToMaterial(key, flag, curve) on Web Crypto.
keyToMaterial(key, flag, curve) ==
    keyToMaterialOf(key, exportKey(KEY_FORMAT(flag), key), flag, curve)

\* materialToMultibase marking every point as one with an even y.
materialToMultibase_evenOnly(material, flag, curve) ==
    LET materialLength == KEY_UNCOMPRESSED_LENGTH(flag, curve)
    IN IF Len(material) # materialLength THEN Err("INVALID_KEYPAIR_LENGTH")
       ELSE
         LET x == Slice(material, 0, materialLength \div 2)
             y == Slice(material, materialLength \div 2, Len(material))
             even == y[Len(y)] % 2 = 0
             compressedMaterial ==
               IF flag = "private" THEN material
               ELSE <<2>> \o x
         IN Ok(base58btc_encode(MULTIBASE(flag, curve) \o compressedMaterial))

materialToMultibase(material, flag, curve) ==
    LET materialLength == KEY_UNCOMPRESSED_LENGTH(flag, curve)
    IN IF Len(material) # materialLength THEN Err("INVALID_KEYPAIR_LENGTH")
       ELSE
         LET x == Slice(material, 0, materialLength \div 2)
             y == Slice(material, materialLength \div 2, Len(material))
             even == y[Len(y)] % 2 = 0
             compressedMaterial ==
               IF flag = "private" THEN material
               ELSE (IF even THEN <<2>> ELSE <<3>>) \o x
         IN Ok(base58btc_encode(MULTIBASE(flag, curve) \o compressedMaterial))

multibaseToMaterial(multibase, flag, curve) ==
    LET multibasePrefix == MULTIBASE(flag, curve)
        materialLength == KEY_COMPRESSED_LENGTH(flag, curve)
    IN Bind(base58btc_decode(multibase), LAMBDA multibaseMaterial :
         IF ~IsOk(multibaseMaterial) THEN multibaseMaterial
         ELSE IF ~(\A i \in 1..Len(multibasePrefix) :
                     i <= Len(multibaseMaterial.val)
                     /\ multibaseMaterial.val[i] = multibasePrefix[i])
         THEN Err(DECODING_ERROR)
         ELSE LET material == Slice(multibaseMaterial.val, Len(multibasePrefix),
                                    Len(multibaseMaterial.val))
              IN IF Len(material) # materialLength THEN Err("INVALID_KEYPAIR_LENGTH")
                 ELSE Ok(material))

materialToPrivateKey(material, curve) ==
    IF Len(material) # CoordLength(curve) THEN Err("DataError")
    ELSE Ok(PrivateCryptoKey(curve, material))

materialToPublicKey(material, curve) ==
    IF Len(material) # KEY_COMPRESSED_LENGTH("public", curve)
    THEN Err("INVALID_KEYPAIR_LENGTH")
    ELSE Bind(Decompress(curve, material[1], Tail(material)), LAMBDA y :
           IF ~IsOk(y) THEN y ELSE Ok(PublicCryptoKey(curve, Tail(material), y.val)))

\* A verification method: a record of id, type, controller, publicKeyMultibase
\* and secretKeyMultibase, the last two "" when it has none.  A keypair: a
\* record of curve, publicKey and privateKey, a missing key being NoKey.
multibaseToKeypair(verificationMethod, curve) ==
    LET secretKey ==
          IF verificationMethod.secretKeyMultibase = <<>> THEN Ok(NoKey)
          ELSE Bind(multibaseToMaterial(verificationMethod.secretKeyMultibase,
                                        "private", curve),
                    LAMBDA m : IF IsOk(m) THEN materialToPrivateKey(m.val, curve) ELSE m)
        publicKeyOf ==
          IF verificationMethod.publicKeyMultibase = <<>> THEN Ok(NoKey)
          ELSE Bind(multibaseToMaterial(verificationMethod.publicKeyMultibase,
                                        "public", curve),
                    LAMBDA m : IF IsOk(m) THEN materialToPublicKey(m.val, curve) ELSE m)
    IN Bind(secretKey, LAMBDA privateKey :
         IF ~IsOk(privateKey) THEN privateKey
         ELSE Bind(publicKeyOf, LAMBDA publicKey :
                IF ~IsOk(publicKey) THEN publicKey
                ELSE IF verificationMethod.secretKeyMultibase = <<>>
                        /\ verificationMethod.publicKeyMultibase = <<>>
                THEN Err("INVALID_KEYPAIR_CONTENT")
                ELSE Ok([curve |-> curve, publicKey |-> publicKey.val,
                         privateKey |-> privateKey.val])))

\* ECKeypair.import(inputDocument, {curve}) with no check option set.  The
\* loader of the model resolves Multikey documents only; the JsonWebKey
\* branch (jwkToKeypair) is not modelled and any other type is refused.
ECKeypair_import(inputDocument, curve) ==
    IF inputDocument.type = KEYPAIR_DOCUMENT_TYPE_MULTI
    THEN multibaseToKeypair(inputDocument, curve)
    ELSE Err("KEYPAIR_IMPORT_ERROR")

\* An ECKeypair: a record of curve, id, controller, publicKey and privateKey.
\* An id or controller that is absent is the empty string (`!this.id` holds
\* of both), a key that is absent is NoKey.
\* generateFingerprint giving the multicodec-prefixed point without its
\* multibase encoding.
generateFingerprint_unencoded(keypair) ==
    IF keypair.publicKey = NoKey THEN Err("INVALID_KEYPAIR_CONTENT")
    ELSE Ok(MULTIBASE("public", keypair.curve)
              \o <<2 + (keypair.publicKey.y[Len(keypair.publicKey.y)] % 2)>>
              \o keypair.publicKey.x)

\* ECKeypair.generateFingerprint()
generateFingerprint(keypair) ==
    IF keypair.publicKey = NoKey THEN Err("INVALID_KEYPAIR_CONTENT")
    ELSE Bind(keyToMaterial(keypair.publicKey, "public", keypair.curve), LAMBDA material :
           IF ~IsOk(material) THEN material
           ELSE materialToMultibase(material.val, "public", keypair.curve))

\* ECKeypair.verifyFingerprint(fingerprint)
verifyFingerprint(keypair, fingerprint) ==
    Bind(generateFingerprint(keypair), LAMBDA own :
      IF ~IsOk(own) THEN own ELSE Ok(fingerprint = own.val))

\* multi.base64url.encode: multibase base64url with padding, prefix 'U'.
base64url_encode(bytes) ==
    <<85>> \o B64Body(bytes) \o [j \in 1..((3 - (Len(bytes) % 3)) % 3) |-> 61]

JWK_TYPE == "EC"
JWK_USE == "sig"

\* JSON.stringify of a JWK: its members in the order keyToJwk writes them,
\* those that are undefined left out.
JSON_stringify(jwk) ==
    <<<<"kty", jwk.kty>>, <<"use", jwk.use>>, <<"key_ops", jwk.key_ops>>,
      <<"ext", jwk.ext>>, <<"crv", jwk.crv>>, <<"x", jwk.x>>, <<"y", jwk.y>>>>
      \o (IF jwk.d = <<>> THEN <<>> ELSE <<<<"d", jwk.d>>>>)

\* getJwkThumbprint(jwk)
getJwkThumbprint(o, jwk) ==
    Bind(subtle_digest(o, "SHA-256", TextEncode(JSON_stringify(jwk))), LAMBDA hash :
      OkO(hash.o, base64url_encode(hash.val)))

\* keyToJwk(key, flag): crypto.subtle.exportKey("jwk", key) gives the
\* coordinates, and d for a private key, in base64url without padding; alg is
\* undefined for an EC key.  A member that is undefined is the empty string.
keyToJwk(key, flag) ==
    LET point == IF key.type = "private" THEN PublicPoint(key.curve, key.d)
                 ELSE key.x \o key.y
        n == CoordLength(key.curve)
    IN [kty |-> JWK_TYPE, use |-> JWK_USE,
        key_ops |-> IF key.type = "private" THEN <<"sign">> ELSE <<"verify">>,
        ext |-> "true", crv |-> key.curve,
        x |-> B64Body(SubSeq(point, 1, n)), y |-> B64Body(SubSeq(point, n + 1, 2 * n)),
        d |-> IF flag = "private" THEN B64Body(key.d) ELSE <<>>]

\* A verification method: id, type, controller and, for a Multikey,
\* publicKeyMultibase and secretKeyMultibase, for a JsonWebKey, publicKeyJwk
\* and secretKeyJwk.  A member that is undefined is the empty string.  The
\* keypairs of the model carry no expires and no revoked date.
\* keypairToMultibase(keypair, flag)
keypairToMultibase(keypair, flag) ==
    IF keypair.controller = <<>> \/ keypair.id = <<>> THEN Err("INVALID_KEYPAIR_CONTENT")
    ELSE IF flag = "private" /\ keypair.privateKey = NoKey
    THEN Err("INVALID_KEYPAIR_CONTENT")
    ELSE
      LET secret ==
            IF flag # "private" THEN Ok(<<>>)
            ELSE Bind(keyToMaterial(keypair.privateKey, "private", keypair.curve),
                      LAMBDA material :
                        IF ~IsOk(material) THEN material
                        ELSE materialToMultibase(material.val, "private", keypair.curve))
          public ==
            IF keypair.publicKey = NoKey THEN Ok(<<>>)
            ELSE Bind(keyToMaterial(keypair.publicKey, "public", keypair.curve),
                      LAMBDA material :
                        IF ~IsOk(material) THEN material
                        ELSE materialToMultibase(material.val, "public", keypair.curve))
      IN IF ~IsOk(secret) THEN secret
         ELSE IF ~IsOk(public) THEN public
         ELSE IF keypair.publicKey = NoKey /\ flag = "public"
         THEN Err("INVALID_KEYPAIR_CONTENT")
         ELSE Ok([id |-> keypair.id, type |-> KEYPAIR_DOCUMENT_TYPE_MULTI,
                  controller |-> keypair.controller,
                  publicKeyMultibase |-> public.val, secretKeyMultibase |-> secret.val])

\* A JWK that is undefined.
NoJwk == [kty |-> "", use |-> "", key_ops |-> <<>>, ext |-> "", crv |-> "",
          x |-> <<>>, y |-> <<>>, d |-> <<>>]

\* keypairToJwk putting the secret key into the document whatever the flag.
keypairToJwk_secretAlways(o, keypair, flag) ==
    IF keypair.controller = <<>> \/ keypair.id = <<>> THEN ErrO(o, "INVALID_KEYPAIR_CONTENT")
    ELSE IF flag = "private" /\ keypair.privateKey = NoKey
    THEN ErrO(o, "INVALID_KEYPAIR_CONTENT")
    ELSE
      LET document ==
            [id |-> keypair.id, type |-> KEYPAIR_DOCUMENT_TYPE_JWK,
             controller |-> keypair.controller, publicKeyJwk |-> NoJwk,
             secretKeyJwk |-> IF keypair.privateKey # NoKey
                              THEN keyToJwk(keypair.privateKey, "private") ELSE NoJwk]
      IN IF keypair.publicKey # NoKey
         THEN LET publicKeyJwk == keyToJwk(keypair.publicKey, "public")
              IN Bind(getJwkThumbprint(o, publicKeyJwk), LAMBDA thumbprint :
                   OkO(thumbprint.o,
                       [document EXCEPT !.publicKeyJwk = publicKeyJwk,
                                        !.id = keypair.controller \o <<35>> \o thumbprint.val]))
         ELSE IF flag = "public" THEN ErrO(o, "INVALID_KEYPAIR_CONTENT")
         ELSE OkO(o, document)

\* keypairToJwk(keypair, flag)
keypairToJwk(o, keypair, flag) ==
    IF keypair.controller = <<>> \/ keypair.id = <<>> THEN ErrO(o, "INVALID_KEYPAIR_CONTENT")
    ELSE IF flag = "private" /\ keypair.privateKey = NoKey
    THEN ErrO(o, "INVALID_KEYPAIR_CONTENT")
    ELSE
      LET document ==
            [id |-> keypair.id, type |-> KEYPAIR_DOCUMENT_TYPE_JWK,
             controller |-> keypair.controller, publicKeyJwk |-> NoJwk,
             secretKeyJwk |-> IF flag = "private"
                              THEN keyToJwk(keypair.privateKey, "private") ELSE NoJwk]
      IN IF keypair.publicKey # NoKey
         THEN LET publicKeyJwk == keyToJwk(keypair.publicKey, "public")
              IN Bind(getJwkThumbprint(o, publicKeyJwk), LAMBDA thumbprint :
                   OkO(thumbprint.o,
                       [document EXCEPT !.publicKeyJwk = publicKeyJwk,
                                        !.id = keypair.controller \o <<35>> \o thumbprint.val]))
         ELSE IF flag = "public" THEN ErrO(o, "INVALID_KEYPAIR_CONTENT")
         ELSE OkO(o, document)

\* generateRawKeypair(curve): one of the key pairs of the curve.
generateRawKeypair(k) ==
    [publicKey |-> PublicCryptoKey(KeyCurve(k), KeyX(k), KeyY(k)),
     privateKey |-> PrivateCryptoKey(KeyCurve(k), KeyD(k))]

\* ECKeypair.initialize(), where crypto.subtle.generateKey gives key pair k:
\* the keypair afterwards, or the error raised.
ECKeypair_initialize(this, k) ==
    LET keypair == generateRawKeypair(k)
        generated == [this EXCEPT !.publicKey = keypair.publicKey,
                                  !.privateKey = keypair.privateKey]
    IN IF this.controller # <<>> /\ this.id = <<>>
       THEN Bind(generateFingerprint(generated), LAMBDA fingerprint :
              IF ~IsOk(fingerprint) THEN fingerprint
              ELSE Ok([generated EXCEPT !.id = this.controller \o <<35>> \o fingerprint.val]))
       ELSE Ok(generated)

\* A faulty jwkToKey: the d of the JWK is taken whatever the flag.
jwkToKey_secretKept(jwk, flag) ==
    LET defaultUsage == IF flag = "private" THEN <<"sign">> ELSE <<"verify">>
        keyUsage == IF jwk.key_ops # <<>> THEN jwk.key_ops ELSE defaultUsage
        secret == jwk.d
    IN IF flag = "private" /\ secret = <<>> THEN Err(DECODING_ERROR)
       ELSE IF jwk.kty # JWK_TYPE THEN Err("INVALID_KEYPAIR_CONTENT")
       ELSE IF jwk.crv \notin Curves THEN Err("INVALID_KEYPAIR_CONTENT")
       ELSE
         LET x == base64urlnopad_decode(<<117>> \o jwk.x)
             y == base64urlnopad_decode(<<117>> \o jwk.y)
             d == base64urlnopad_decode(<<117>> \o secret)
             n == CoordLength(jwk.crv)
         IN IF \E i \in 1..Len(keyUsage) :
                 keyUsage[i] # (IF secret = <<>> THEN "verify" ELSE "sign")
            THEN Err("SyntaxError")
            ELSE IF ~IsOk(x) \/ ~IsOk(y) \/ ~IsOk(d) THEN Err("DataError")
            ELSE IF Len(x.val) # n \/ Len(y.val) # n THEN Err("DataError")
            ELSE IF secret = <<>> THEN Ok(PublicCryptoKey(jwk.crv, x.val, y.val))
            ELSE IF Len(d.val) # n THEN Err("DataError")
            ELSE Ok(PrivateCryptoKey(jwk.crv, d.val))

\* jwkToKey(jwk, flag): crypto.subtle.importKey("jwk", ...) refuses
\* (SyntaxError) a usage the key cannot have, a public key verifying and a
\* private key signing only, decodes the base64url members and refuses
\* (DataError) those that are no coordinates of the curve.
jwkToKey(jwk, flag) ==
    LET defaultUsage == IF flag = "private" THEN <<"sign">> ELSE <<"verify">>
        keyUsage == IF jwk.key_ops # <<>> THEN jwk.key_ops ELSE defaultUsage
        secret == IF flag = "private" THEN jwk.d ELSE <<>>
    IN IF flag = "private" /\ secret = <<>> THEN Err(DECODING_ERROR)
       ELSE IF jwk.kty # JWK_TYPE THEN Err("INVALID_KEYPAIR_CONTENT")
       ELSE IF jwk.crv \notin Curves THEN Err("INVALID_KEYPAIR_CONTENT")
       ELSE
         LET x == base64urlnopad_decode(<<117>> \o jwk.x)
             y == base64urlnopad_decode(<<117>> \o jwk.y)
             d == base64urlnopad_decode(<<117>> \o secret)
             n == CoordLength(jwk.crv)
         IN IF \E i \in 1..Len(keyUsage) :
                 keyUsage[i] # (IF secret = <<>> THEN "verify" ELSE "sign")
            THEN Err("SyntaxError")
            ELSE IF ~IsOk(x) \/ ~IsOk(y) \/ ~IsOk(d) THEN Err("DataError")
            ELSE IF Len(x.val) # n \/ Len(y.val) # n THEN Err("DataError")
            ELSE IF secret = <<>> THEN Ok(PublicCryptoKey(jwk.crv, x.val, y.val))
            ELSE IF Len(d.val) # n THEN Err("DataError")
            ELSE Ok(PrivateCryptoKey(jwk.crv, d.val))

\* jwkToKeypair(verificationMethod, curve): the keys of the keypair.
jwkToKeypair(verificationMethod, curve) ==
    LET innerImport(jwk, flag) ==
          Bind(jwkToKey(jwk, flag), LAMBDA recoveredKey :
            IF ~IsOk(recoveredKey) THEN recoveredKey
            ELSE IF recoveredKey.val.curve # curve THEN Err("INVALID_KEYPAIR_CONTENT")
            ELSE recoveredKey)
        secretKey ==
          IF verificationMethod.secretKeyJwk = NoJwk THEN Ok(NoKey)
          ELSE innerImport(verificationMethod.secretKeyJwk, "private")
        publicKeyOf ==
          IF verificationMethod.publicKeyJwk = NoJwk THEN Ok(NoKey)
          ELSE innerImport(verificationMethod.publicKeyJwk, "public")
    IN IF ~IsOk(secretKey) THEN secretKey
       ELSE IF ~IsOk(publicKeyOf) THEN publicKeyOf
       ELSE IF verificationMethod.secretKeyJwk = NoJwk
               /\ verificationMethod.publicKeyJwk = NoJwk
       THEN Err("INVALID_KEYPAIR_CONTENT")
       ELSE Ok([curve |-> curve, publicKey |-> publicKeyOf.val,
                privateKey |-> secretKey.val])

\* String.prototype.startsWith
String_startsWith(str, searchString) ==
    /\ Len(str) >= Len(searchString)
    /\ SubSeq(str, 1, Len(searchString)) = searchString

\* ECKeypair.export skipping the test of id and controller.
ECKeypair_export_idUnchecked(o, keypair, options) ==
    LET flag == IF options.flag = "" THEN "public" ELSE options.flag
        type == IF options.type = "" THEN KEYPAIR_DOCUMENT_TYPE_MULTI ELSE options.type
    IN IF (flag = "private" /\ keypair.privateKey = NoKey)
            \/ (flag = "public" /\ keypair.publicKey = NoKey)
       THEN ErrO(o, "KEYPAIR_EXPORT_ERROR")
       ELSE IF type = KEYPAIR_DOCUMENT_TYPE_MULTI
       THEN Bind(keypairToMultibase(keypair, flag), LAMBDA document :
              [err |-> document.err, val |-> document.val, o |-> o])
       ELSE IF type = KEYPAIR_DOCUMENT_TYPE_JWK THEN keypairToJwk(o, keypair, flag)
       ELSE ErrO(o, "KEYPAIR_EXPORT_ERROR")

\* ECKeypair.export(options): an option that is not given is the empty string.
ECKeypair_export(o, keypair, options) ==
    LET flag == IF options.flag = "" THEN "public" ELSE options.flag
        type == IF options.type = "" THEN KEYPAIR_DOCUMENT_TYPE_MULTI ELSE options.type
    IN IF (flag = "private" /\ keypair.privateKey = NoKey)
            \/ (flag = "public" /\ keypair.publicKey = NoKey)
       THEN ErrO(o, "KEYPAIR_EXPORT_ERROR")
       ELSE IF keypair.id = <<>> \/ keypair.controller = <<>>
               \/ ~String_startsWith(keypair.id, keypair.controller)
       THEN ErrO(o, "KEYPAIR_EXPORT_ERROR")
       ELSE IF type = KEYPAIR_DOCUMENT_TYPE_MULTI
       THEN Bind(keypairToMultibase(keypair, flag), LAMBDA document :
              [err |-> document.err, val |-> document.val, o |-> o])
       ELSE IF type = KEYPAIR_DOCUMENT_TYPE_JWK THEN keypairToJwk(o, keypair, flag)
       ELSE ErrO(o, "KEYPAIR_EXPORT_ERROR")

(***************************************************************************)
(* JavaScript objects are records.  A property that is undefined holds     *)
(* Undefined; `delete` removes the field.                                  *)
(***************************************************************************)
Undefined == "<undefined>"
Delete(obj, name) == [f \in DOMAIN obj \ {name} |-> obj[f]]
Assign(obj, name, value) ==
    [f \in DOMAIN obj \cup {name} |-> IF f = name THEN value ELSE obj[f]]

\* Date.parse: the milliseconds since the epoch, or NaN.
DateParse(str) ==
    CASE str = "1970-01-01T00:00:00Z" -> [nan |-> FALSE, ms |-> 0]
      [] str = "1970-01-01T00:00:01Z" -> [nan |-> FALSE, ms |-> 1000]
      [] str = "1969-12-31T23:59:59Z" -> [nan |-> FALSE, ms |-> 0 - 1000]
      [] str = "1970-01-02" -> [nan |-> FALSE, ms |-> 86400000]
      [] OTHER -> [nan |-> TRUE, ms |-> 0]

\* ToBoolean of a number and of a string or undefined.
NumberTruthy(n) == ~n.nan /\ n.ms # 0
StringTruthy(str) == str # Undefined /\ str # ""

\* key/keypair.ts: import with its options.
CID_V1 == "https://www.w3.org/ns/cid/v1"

\* document.validateContext(inputDocument, CID_V1, false, loader.basic), by
\* its contract: the document is in the context asked for.
validateContext(inputDocument, context) == inputDocument.context = context

\* expires < new Date(): an invalid date is before nothing.
DateBefore(date, now) == ~date.nan /\ date.ms < now

\* ECKeypair.import looking at the expires date whatever checkExpired says.
ECKeypair_importWith_alwaysExpiring(inputDocument, options, now) ==
    LET curve == IF options.curve = "" THEN P256 ELSE options.curve
        keys ==
          IF inputDocument.type = KEYPAIR_DOCUMENT_TYPE_MULTI
          THEN multibaseToKeypair(inputDocument, curve)
          ELSE IF inputDocument.type = KEYPAIR_DOCUMENT_TYPE_JWK
          THEN jwkToKeypair(inputDocument, curve)
          ELSE Err("KEYPAIR_IMPORT_ERROR")
    IN IF options.checkContext /\ ~validateContext(inputDocument, CID_V1)
       THEN Err("INVALID_KEYPAIR_CONTENT")
       ELSE IF inputDocument.expires # ""
               /\ DateBefore(DateParse(inputDocument.expires), now)
       THEN Err("KEYPAIR_EXPIRED_ERROR")
       ELSE IF options.checkRevoked /\ inputDocument.revoked # ""
               /\ DateBefore(DateParse(inputDocument.revoked), now)
       THEN Err("KEYPAIR_EXPIRED_ERROR")
       ELSE Bind(keys, LAMBDA keypair :
              IF ~IsOk(keypair) THEN keypair
              ELSE Ok([curve |-> curve, id |-> inputDocument.id,
                       controller |-> inputDocument.controller,
                       expires |-> inputDocument.expires,
                       revoked |-> inputDocument.revoked,
                       publicKey |-> keypair.val.publicKey,
                       privateKey |-> keypair.val.privateKey]))

\* ECKeypair.import(inputDocument, options) called at the time now.  An
\* option that is not given is FALSE, a curve that is not given the empty
\* string; a member of the document that is undefined is the empty string.
ECKeypair_importWith(inputDocument, options, now) ==
    LET curve == IF options.curve = "" THEN P256 ELSE options.curve
        keys ==
          IF inputDocument.type = KEYPAIR_DOCUMENT_TYPE_MULTI
          THEN multibaseToKeypair(inputDocument, curve)
          ELSE IF inputDocument.type = KEYPAIR_DOCUMENT_TYPE_JWK
          THEN jwkToKeypair(inputDocument, curve)
          ELSE Err("KEYPAIR_IMPORT_ERROR")
    IN IF options.checkContext /\ ~validateContext(inputDocument, CID_V1)
       THEN Err("INVALID_KEYPAIR_CONTENT")
       ELSE IF options.checkExpired /\ inputDocument.expires # ""
               /\ DateBefore(DateParse(inputDocument.expires), now)
       THEN Err("KEYPAIR_EXPIRED_ERROR")
       ELSE IF options.checkRevoked /\ inputDocument.revoked # ""
               /\ DateBefore(DateParse(inputDocument.revoked), now)
       THEN Err("KEYPAIR_EXPIRED_ERROR")
       ELSE Bind(keys, LAMBDA keypair :
              IF ~IsOk(keypair) THEN keypair
              ELSE Ok([curve |-> curve, id |-> inputDocument.id,
                       controller |-> inputDocument.controller,
                       expires |-> inputDocument.expires,
                       revoked |-> inputDocument.revoked,
                       publicKey |-> keypair.val.publicKey,
                       privateKey |-> keypair.val.privateKey]))

(***************************************************************************)
(* The canonicalizers, jsonld's URDNA2015 and JCS, by their contract: the  *)
(* canonical text of an object has one line for each property that is      *)
(* defined, in a fixed order, and two objects have the same text exactly   *)
(* when they have the same properties.  An N-Quad is a record of subject,  *)
(* predicate, object and the @context that decides the IRIs of its terms;  *)
(* the subject is the object's id or, when it has none, a blank node with  *)
(* a label.  In a JSON text @context and id are lines of their own.        *)
(***************************************************************************)
PropertyOrder ==
    << "age", "context", "created", "cryptosuite", "degree", "id", "name",
       "proofPurpose", "type", "verificationMethod" >>

Defined(obj, f) == f \in DOMAIN obj /\ obj[f] # Undefined

Iri(id) == [iri |-> id, blank |-> <<>>]
BlankNode(label) == [iri |-> "", blank |-> label]

\* The N-Quads of obj in canonical order, its blank node carrying `label`.
NQuads(obj, label) ==
    LET keep(f) == Defined(obj, f) /\ f \notin {"context", "id"}
        names == SelectSeq(PropertyOrder, keep)
    IN [i \in 1..Len(names) |->
          [s |-> IF Defined(obj, "id") THEN Iri(obj.id) ELSE BlankNode(label),
           p |-> names[i], o |-> obj[names[i]],
           c |-> IF Defined(obj, "context") THEN obj.context ELSE ""]]

\* The label URDNA2015 and RDFC-1.0 give the only blank node: "c14n0".
CanonicalLabel == <<99, 49, 52, 110, 48>>

rdfc_normalize(obj) == NQuads(obj, CanonicalLabel)

jcs_canonize(obj) ==
    LET keep(f) == Defined(obj, f)
        names == SelectSeq(PropertyOrder, keep)
    IN [i \in 1..Len(names) |->
          [s |-> Iri(""), p |-> names[i], o |-> obj[names[i]], c |-> "json"]]

(***************************************************************************)
(* The document loader: the verification methods it resolves.              *)
(***************************************************************************)
Multikey(id, k, withSecret) ==
    [id |-> id, type |-> KEYPAIR_DOCUMENT_TYPE_MULTI, controller |-> "did:example:issuer",
     publicKeyMultibase |->
        materialToMultibase(KeyX(k) \o KeyY(k), "public", KeyCurve(k)).val,
     secretKeyMultibase |->
        IF withSecret THEN materialToMultibase(KeyD(k), "private", KeyCurve(k)).val
        ELSE <<>>]

VerificationMethodIds ==
    { "did:example:issuer#p256", "did:example:issuer#p384",
      "did:example:issuer#public", "did:example:other#p256" }

\* document.retrieveVerificationMethod(id, ..., {documentLoader})
retrieveVerificationMethod(id) ==
    CASE id = "did:example:issuer#p256" -> Ok(Multikey(id, 1, TRUE))
      [] id = "did:example:issuer#p384" -> Ok(Multikey(id, 2, TRUE))
      [] id = "did:example:issuer#public" -> Ok(Multikey(id, 1, FALSE))
      [] id = "did:example:other#p256" -> Ok(Multikey(id, 4, TRUE))
      [] OTHER -> Err(INVALID_VERIFICATION_METHOD)

(***************************************************************************)
(* suite/core.ts: ecdsa-rdfc-2019 and ecdsa-jcs-2019                       *)
(***************************************************************************)
transformRdfc(unsecuredDocument, proof) ==
    IF proof.type # GENERAL_PROOF_TYPE \/ proof.cryptosuite # SUITE_RDFC
    THEN Err(PROOF_TRANSFORMATION_ERROR)
    ELSE Ok(rdfc_normalize(unsecuredDocument))

configRdfc(unsecuredDocument, proof) ==
    LET proofConfig == proof
    IN IF proofConfig.type # GENERAL_PROOF_TYPE \/ proofConfig.cryptosuite # SUITE_RDFC
       THEN Err(PROOF_GENERATION_ERROR)
       ELSE IF StringTruthy(proofConfig.created)
               /\ ~NumberTruthy(DateParse(proofConfig.created))
       THEN Err(PROOF_GENERATION_ERROR)
       ELSE Ok(rdfc_normalize(Assign(proofConfig, "context", unsecuredDocument.context)))

transformJcs(unsecuredDocument, proof) ==
    IF proof.type # GENERAL_PROOF_TYPE \/ proof.cryptosuite # SUITE_JCS
    THEN Err(PROOF_TRANSFORMATION_ERROR)
    ELSE Ok(jcs_canonize(unsecuredDocument))

configJcs(proof) ==
    LET proofConfig == proof
    IN IF proofConfig.type # GENERAL_PROOF_TYPE \/ proofConfig.cryptosuite # SUITE_JCS
       THEN Err(PROOF_GENERATION_ERROR)
       ELSE IF StringTruthy(proofConfig.created)
               /\ ~NumberTruthy(DateParse(proofConfig.created))
       THEN Err(PROOF_GENERATION_ERROR)
       ELSE Ok(jcs_canonize(proofConfig))

\* A faulty hashRdfcJcs: the two digests in the other order.
hashRdfcJcs_swapped(o, transformedDocument, canonicalProofConfig, curve) ==
    Bind(constructHasher(o, curve, TextEncode(canonicalProofConfig)),
         LAMBDA proofConfigHash :
      IF ~IsOk(proofConfigHash) THEN proofConfigHash
      ELSE Bind(constructHasher(proofConfigHash.o, curve, TextEncode(transformedDocument)),
                LAMBDA transformedDocumentHash :
             IF ~IsOk(transformedDocumentHash) THEN transformedDocumentHash
             ELSE OkO(transformedDocumentHash.o, transformedDocumentHash.val \o proofConfigHash.val)))

hashRdfcJcs(o, transformedDocument, canonicalProofConfig, curve) ==
    Bind(constructHasher(o, curve, TextEncode(canonicalProofConfig)),
         LAMBDA proofConfigHash :
      IF ~IsOk(proofConfigHash) THEN proofConfigHash
      ELSE Bind(constructHasher(proofConfigHash.o, curve, TextEncode(transformedDocument)),
                LAMBDA transformedDocumentHash :
             IF ~IsOk(transformedDocumentHash) THEN transformedDocumentHash
             ELSE OkO(transformedDocumentHash.o, proofConfigHash.val \o transformedDocumentHash.val)))

serializeRdfcJcs(o, hashData, curve, proof) ==
    Bind(retrieveVerificationMethod(proof.verificationMethod), LAMBDA method :
      IF ~IsOk(method) THEN ErrO(o, method.err)
      ELSE Bind(ECKeypair_import(method.val, curve), LAMBDA keypair :
             IF ~IsOk(keypair) THEN ErrO(o, keypair.err)
             ELSE IF keypair.val.privateKey = NoKey
             THEN ErrO(o, INVALID_VERIFICATION_METHOD)
             ELSE subtle_sign(o, curveToDigestAlgorithm(curve).val,
                              keypair.val.privateKey, RawBytes(hashData))))

verifyRdfcJcs(o, hashData, proofBytes, curve, proof) ==
    Bind(retrieveVerificationMethod(proof.verificationMethod), LAMBDA method :
      IF ~IsOk(method) THEN Err(method.err)
      ELSE Bind(ECKeypair_import(method.val, curve), LAMBDA keypair :
             IF ~IsOk(keypair) THEN Err(keypair.err)
             ELSE IF keypair.val.publicKey = NoKey THEN Err(INVALID_VERIFICATION_METHOD)
             ELSE Ok(subtle_verify(o, curveToDigestAlgorithm(curve).val,
                                   keypair.val.publicKey, proofBytes,
                                   RawBytes(hashData)))))

(***************************************************************************)
(* suite/rdfc.ts: EcdsaRdfc2019.  A verification result is a record of     *)
(* verified and verifiedDocument, the latter a sequence that is empty when *)
(* the property is undefined and holds the document otherwise.             *)
(***************************************************************************)
Verification(verified, document) ==
    [verified |-> verified,
     verifiedDocument |-> IF verified THEN <<document>> ELSE <<>>]

EcdsaRdfc2019_createProof(o, unsecuredDocument, curve, proofOptions) ==
    LET proof == proofOptions
    IN Bind(configRdfc(unsecuredDocument, proofOptions), LAMBDA canonicalProofConfig :
         IF ~IsOk(canonicalProofConfig) THEN ErrO(o, canonicalProofConfig.err)
         ELSE Bind(transformRdfc(unsecuredDocument, proofOptions), LAMBDA canonicalDocument :
           IF ~IsOk(canonicalDocument) THEN ErrO(o, canonicalDocument.err)
           ELSE Bind(hashRdfcJcs(o, canonicalDocument.val, canonicalProofConfig.val, curve),
                     LAMBDA hashData :
             IF ~IsOk(hashData) THEN hashData
             ELSE Bind(serializeRdfcJcs(hashData.o, hashData.val, curve, proofOptions),
                       LAMBDA proofBytes :
               IF ~IsOk(proofBytes) THEN proofBytes
               ELSE OkO(proofBytes.o,
                        Assign(proof, "proofValue",
                               base58btc_encode(proofBytes.val)))))))

\* A faulty verifyProof: the document is returned whatever the outcome.
EcdsaRdfc2019_verifyProof_alwaysDocument(o, securedDocument, curve) ==
    LET unsecuredCredential == Delete(securedDocument, "proof")
        proofOptions == Delete(securedDocument.proof, "proofValue")
    IN Bind(base58btc_decode(securedDocument.proof.proofValue), LAMBDA proofBytes :
         IF ~IsOk(proofBytes) THEN ErrO(o, proofBytes.err)
         ELSE Bind(transformRdfc(unsecuredCredential, proofOptions), LAMBDA canonicalDocument :
         IF ~IsOk(canonicalDocument) THEN ErrO(o, canonicalDocument.err)
         ELSE Bind(configRdfc(unsecuredCredential, proofOptions), LAMBDA canonicalProofConfig :
         IF ~IsOk(canonicalProofConfig) THEN ErrO(o, canonicalProofConfig.err)
         ELSE Bind(hashRdfcJcs(o, canonicalDocument.val, canonicalProofConfig.val, curve),
              LAMBDA hashData :
         IF ~IsOk(hashData) THEN hashData
         ELSE Bind(verifyRdfcJcs(hashData.o, hashData.val, proofBytes.val, curve,
                            proofOptions),
                   LAMBDA verified :
           IF ~IsOk(verified) THEN ErrO(hashData.o, verified.err)
           ELSE OkO(hashData.o, [verified |-> verified.val,
                                  verifiedDocument |-> <<unsecuredCredential>>]))))))

EcdsaRdfc2019_verifyProof(o, securedDocument, curve) ==
    LET unsecuredCredential == Delete(securedDocument, "proof")
        proofOptions == Delete(securedDocument.proof, "proofValue")
    IN Bind(base58btc_decode(securedDocument.proof.proofValue), LAMBDA proofBytes :
         IF ~IsOk(proofBytes) THEN ErrO(o, proofBytes.err)
         ELSE Bind(transformRdfc(unsecuredCredential, proofOptions), LAMBDA canonicalDocument :
         IF ~IsOk(canonicalDocument) THEN ErrO(o, canonicalDocument.err)
         ELSE Bind(configRdfc(unsecuredCredential, proofOptions), LAMBDA canonicalProofConfig :
         IF ~IsOk(canonicalProofConfig) THEN ErrO(o, canonicalProofConfig.err)
         ELSE Bind(hashRdfcJcs(o, canonicalDocument.val, canonicalProofConfig.val, curve),
              LAMBDA hashData :
         IF ~IsOk(hashData) THEN hashData
         ELSE Bind(verifyRdfcJcs(hashData.o, hashData.val, proofBytes.val, curve,
                            proofOptions),
                   LAMBDA verified :
           IF ~IsOk(verified) THEN ErrO(hashData.o, verified.err)
           ELSE OkO(hashData.o, Verification(verified.val, unsecuredCredential)))))))

(***************************************************************************)
(* suite/jcs.ts: EcdsaJcs2019, the pipeline of transform, configure, hash  *)
(* and sign or verify over the JCS functions of suite/core.ts.             *)
(***************************************************************************)
EcdsaJcs2019_createProof(o, unsecuredDocument, curve, proofOptions) ==
    LET proof == proofOptions
    IN Bind(transformJcs(unsecuredDocument, proofOptions), LAMBDA canonicalDocument :
         IF ~IsOk(canonicalDocument) THEN ErrO(o, canonicalDocument.err)
         ELSE Bind(configJcs(proofOptions), LAMBDA canonicalProofConfig :
           IF ~IsOk(canonicalProofConfig) THEN ErrO(o, canonicalProofConfig.err)
           ELSE Bind(hashRdfcJcs(o, canonicalDocument.val, canonicalProofConfig.val, curve),
                     LAMBDA hashData :
             IF ~IsOk(hashData) THEN hashData
             ELSE Bind(serializeRdfcJcs(hashData.o, hashData.val, curve, proofOptions),
                       LAMBDA proofBytes :
               IF ~IsOk(proofBytes) THEN proofBytes
               ELSE OkO(proofBytes.o,
                        Assign(proof, "proofValue",
                               base58btc_encode(proofBytes.val)))))))

EcdsaJcs2019_verifyProof(o, securedDocument, curve) ==
    LET unsecuredCredential == Delete(securedDocument, "proof")
        proofOptions == Delete(securedDocument.proof, "proofValue")
    IN Bind(transformJcs(unsecuredCredential, proofOptions), LAMBDA canonicalDocument :
         IF ~IsOk(canonicalDocument) THEN ErrO(o, canonicalDocument.err)
         ELSE Bind(configJcs(proofOptions), LAMBDA canonicalProofConfig :
         IF ~IsOk(canonicalProofConfig) THEN ErrO(o, canonicalProofConfig.err)
         ELSE Bind(base58btc_decode(securedDocument.proof.proofValue), LAMBDA proofBytes :
         IF ~IsOk(proofBytes) THEN ErrO(o, proofBytes.err)
         ELSE Bind(hashRdfcJcs(o, canonicalDocument.val, canonicalProofConfig.val, curve),
              LAMBDA hashData :
         IF ~IsOk(hashData) THEN hashData
         ELSE Bind(verifyRdfcJcs(hashData.o, hashData.val, proofBytes.val, curve,
                            proofOptions),
                   LAMBDA verified :
           IF ~IsOk(verified) THEN ErrO(hashData.o, verified.err)
           ELSE OkO(hashData.o, Verification(verified.val, unsecuredCredential)))))))

(***************************************************************************)
(* JavaScript Map, parseInt and number formatting.                         *)
(***************************************************************************)
\* Map keys compare by value for numbers and strings, by identity otherwise.
SameKey(a, b) == a.t = b.t /\ a.t \in {"int", "str"} /\ a.v = b.v

\* Map.prototype.set on the entries <<key, value>> in insertion order.
MapSet(m, k, v) ==
    IF \E i \in 1..Len(m) : SameKey(m[i][1], k)
    THEN [i \in 1..Len(m) |-> IF SameKey(m[i][1], k) THEN <<k, v>> ELSE m[i]]
    ELSE Append(m, <<k, v>>)

RECURSIVE MapFromEntries(_)
MapFromEntries(ps) ==
    IF ps = <<>> THEN <<>>
    ELSE LET n == Len(ps)
         IN MapSet(MapFromEntries(SubSeq(ps, 1, n - 1)), ps[n][1], ps[n][2])

RECURSIVE DigitsValue(_, _)
DigitsValue(s, acc) ==
    IF s = <<>> \/ ~IsDigit(Head(s)) THEN acc
    ELSE DigitsValue(Tail(s), acc * 10 + (Head(s) - 48))

RECURSIVE SkipSpaces(_)
SkipSpaces(s) == IF s # <<>> /\ Head(s) = 32 THEN SkipSpaces(Tail(s)) ELSE s

\* parseInt(s, 10): leading white space, an optional sign, then the longest
\* prefix of digits; NaN when there is no digit.
parseInt(s) ==
    LET t == SkipSpaces(s)
        signed == t # <<>> /\ Head(t) \in {43, 45}
        d == IF signed THEN Tail(t) ELSE t
        neg == signed /\ Head(t) = 45
    IN IF d = <<>> \/ ~IsDigit(Head(d)) THEN [nan |-> TRUE, n |-> 0]
       ELSE [nan |-> FALSE,
             n |-> IF neg THEN 0 - DigitsValue(d, 0) ELSE DigitsValue(d, 0)]

RECURSIVE NatToString(_)
NatToString(n) ==
    IF n < 10 THEN <<48 + n>> ELSE NatToString(n \div 10) \o <<48 + (n % 10)>>

\* `${n}` for an integer n.
NumberToString(n) == IF n < 0 THEN <<45>> \o NatToString(0 - n) ELSE NatToString(n)

(***************************************************************************)
(* constant/prefix.ts                                                      *)
(***************************************************************************)
CBOR_BASE == <<217, 93, 0>>          \* hexToBytes("d95d00")
CBOR_DERIVED == <<217, 93, 1>>       \* hexToBytes("d95d01")
BLANK_LABEL == <<99, 49, 52, 110>>   \* "c14n"

(***************************************************************************)
(* selective/label.ts.  A label map is the sequence of its entries         *)
(* <<key, value>>, both strings; a compressed label map is a Map from      *)
(* numbers to byte arrays.                                                 *)
(***************************************************************************)
RECURSIVE CompressEntries(_, _)
CompressEntries(entries, map) ==
    IF entries = <<>> THEN Ok(map)
    ELSE
      LET key == Head(entries)[1]
          value == Head(entries)[2]
      IN IF ~StartsWith(key, BLANK_LABEL) THEN Err(PROOF_GENERATION_ERROR)
         ELSE
           LET index == parseInt(SubSeq(key, Len(BLANK_LABEL) + 1, Len(key)))
           IN Bind(base64urlnopad_decode(value), LAMBDA data :
                IF ~IsOk(data) THEN data
                ELSE IF index.nan THEN Err(PROOF_GENERATION_ERROR)
                ELSE CompressEntries(Tail(entries),
                                     MapSet(map, Num(index.n), U8(data.val))))

compressLabelMap(labelMap) == CompressEntries(labelMap, <<>>)

RECURSIVE DecompressEntries(_, _)
DecompressEntries(entries, map) ==
    IF entries = <<>> THEN map
    ELSE
      LET index == BLANK_LABEL \o NumberToString(Head(entries)[1].v)
          data == base64urlnopad_encode(Head(entries)[2].v)
      IN DecompressEntries(Tail(entries), MapSet(map, Str(index), Str(data)))

\* The result as entries <<key, value>> of plain strings.
decompressLabelMap(compressedLabelMap) ==
    LET m == DecompressEntries(compressedLabelMap, <<>>)
    IN [i \in 1..Len(m) |-> <<m[i][1].v, m[i][2].v>>]

(***************************************************************************)
(* selective/assert.ts                                                     *)
(***************************************************************************)
assertBaseProofValue(components) ==
    /\ IsArray(components) /\ Len(components.v) = 5
    /\ (isUint8ArrayOf(components.v[1], 64) \/ isUint8ArrayOf(components.v[1], 96))
    /\ isUint8ArrayOf(components.v[2], 35)
    /\ isUint8ArrayOf(components.v[3], 32)
    /\ IsArray(components.v[4])
    /\ \A i \in 1..Len(components.v[4].v) : isUint8ArrayOf(components.v[4].v[i], 64)
    /\ IsArray(components.v[5])
    /\ \A i \in 1..Len(components.v[5].v) : isString(components.v[5].v[i])

assertCompressedProofValue(components) ==
    /\ IsArray(components) /\ Len(components.v) = 5
    /\ (isUint8ArrayOf(components.v[1], 64) \/ isUint8ArrayOf(components.v[1], 96))
    /\ isUint8ArrayOf(components.v[2], 35)
    /\ IsArray(components.v[3])
    /\ \A i \in 1..Len(components.v[3].v) : isUint8Array(components.v[3].v[i])
    /\ IsMap(components.v[4])
    /\ \A i \in 1..Len(components.v[4].v) :
          /\ NumberIsInteger(components.v[4].v[i][1])
          /\ isUint8Array(components.v[4].v[i][2])
    /\ IsArray(components.v[5])
    /\ \A i \in 1..Len(components.v[5].v) : NumberIsInteger(components.v[5].v[i])

(***************************************************************************)
(* selective/serialize.ts.  A base proof value is a record of              *)
(* baseSignature, publicKey, hmacKey, signatures and mandatoryPointers; a  *)
(* derived proof value one of baseSignature, publicKey, signatures,        *)
(* labelMap and mandatoryIndexes.                                          *)
(***************************************************************************)
U8s(bs) == Arr([i \in 1..Len(bs) |-> U8(bs[i])])
Strs(ss) == Arr([i \in 1..Len(ss) |-> Str(ss[i])])
Nums(ns) == Arr([i \in 1..Len(ns) |-> Num(ns[i])])
Unwrap(a) == [i \in 1..Len(a.v) |-> a.v[i].v]

serializeBaseProofValue(proofValue) ==
    LET components == Arr(<<U8(proofValue.baseSignature),
                            U8(proofValue.publicKey),
                            U8(proofValue.hmacKey),
                            U8s(proofValue.signatures),
                            Strs(proofValue.mandatoryPointers)>>)
    IN IF ~assertBaseProofValue(components) THEN Err(ASSERTION_ERROR)
       ELSE Ok(base64urlnopad_encode(CBOR_BASE \o CborEncode(components)))

serializeDerivedProofValue(proofValue) ==
    Bind(compressLabelMap(proofValue.labelMap), LAMBDA compressedLabelMap :
      IF ~IsOk(compressedLabelMap) THEN compressedLabelMap
      ELSE
        LET components == Arr(<<U8(proofValue.baseSignature),
                                U8(proofValue.publicKey),
                                U8s(proofValue.signatures),
                                MapOf(compressedLabelMap.val),
                                Nums(proofValue.mandatoryIndexes)>>)
        IN IF ~assertCompressedProofValue(components) THEN Err(ASSERTION_ERROR)
           ELSE Ok(base64urlnopad_encode(CBOR_DERIVED \o CborEncode(components))))

\* cbor.decode hands a map over as a Map: duplicate keys keep the last value.
DecodeComponents(bytes) ==
    Bind(cbor_decode(bytes), LAMBDA d :
      IF IsOk(d) /\ IsArray(d.val)
      THEN Ok(Arr([i \in 1..Len(d.val.v) |->
                     IF IsMap(d.val.v[i]) THEN MapOf(MapFromEntries(d.val.v[i].v))
                     ELSE d.val.v[i]]))
      ELSE d)

\* A faulty parseBaseProofValue: the header bytes are skipped, not compared.
parseBaseProofValue_headerUnchecked(proofValue) ==
    Bind(base64urlnopad_decode(proofValue), LAMBDA decodedProofValue :
      IF ~IsOk(decodedProofValue) THEN Err(PROOF_VERIFICATION_ERROR)
      ELSE
        LET baseHeader == CBOR_BASE
            realHeader == Slice(decodedProofValue.val, 0, Len(baseHeader))
        IN IF FALSE THEN Err(PROOF_VERIFICATION_ERROR)
           ELSE
             Bind(DecodeComponents(Slice(decodedProofValue.val, Len(baseHeader),
                                         Len(decodedProofValue.val))),
                  LAMBDA components :
               IF ~IsOk(components) \/ ~assertBaseProofValue(components.val)
               THEN Err(PROOF_VERIFICATION_ERROR)
               ELSE Ok([baseSignature |-> components.val.v[1].v,
                       publicKey |-> components.val.v[2].v,
                       hmacKey |-> components.val.v[3].v,
                       signatures |-> Unwrap(components.val.v[4]),
                       mandatoryPointers |-> Unwrap(components.val.v[5])])))

parseBaseProofValue(proofValue) ==
    Bind(base64urlnopad_decode(proofValue), LAMBDA decodedProofValue :
      IF ~IsOk(decodedProofValue) THEN Err(PROOF_VERIFICATION_ERROR)
      ELSE
        LET baseHeader == CBOR_BASE
            realHeader == Slice(decodedProofValue.val, 0, Len(baseHeader))
        IN IF ~EveryEqual(realHeader, baseHeader) THEN Err(PROOF_VERIFICATION_ERROR)
           ELSE
             Bind(DecodeComponents(Slice(decodedProofValue.val, Len(baseHeader),
                                         Len(decodedProofValue.val))),
                  LAMBDA components :
               IF ~IsOk(components) \/ ~assertBaseProofValue(components.val)
               THEN Err(PROOF_VERIFICATION_ERROR)
               ELSE Ok([baseSignature |-> components.val.v[1].v,
                       publicKey |-> components.val.v[2].v,
                       hmacKey |-> components.val.v[3].v,
                       signatures |-> Unwrap(components.val.v[4]),
                       mandatoryPointers |-> Unwrap(components.val.v[5])])))

parseDerivedProofValue(proofValue) ==
    Bind(base64urlnopad_decode(proofValue), LAMBDA decodedProofValue :
      IF ~IsOk(decodedProofValue) THEN Err(PROOF_VERIFICATION_ERROR)
      ELSE
        LET derivedHeader == CBOR_DERIVED
            realHeader == Slice(decodedProofValue.val, 0, Len(derivedHeader))
        IN IF ~EveryEqual(realHeader, derivedHeader) THEN Err(PROOF_VERIFICATION_ERROR)
           ELSE
             Bind(DecodeComponents(Slice(decodedProofValue.val, Len(derivedHeader),
                                         Len(decodedProofValue.val))),
                  LAMBDA components :
               IF ~IsOk(components) \/ ~assertCompressedProofValue(components.val)
               THEN Err(PROOF_VERIFICATION_ERROR)
               ELSE Ok([baseSignature |-> components.val.v[1].v,
                       publicKey |-> components.val.v[2].v,
                       signatures |-> Unwrap(components.val.v[3]),
                       labelMap |-> decompressLabelMap(components.val.v[4].v),
                       mandatoryIndexes |-> Unwrap(components.val.v[5])])))

(***************************************************************************)
(* The selective disclosure functions of @herculas/vc-data-integrity, by   *)
(* their contract.  A credential has one node, named by its id or blank,   *)
(* and a JSON pointer names one of its claims.  A Map from numbers to      *)
(* N-Quads is the sequence of its entries <<index, N-Quad>>, in the order  *)
(* of insertion.                                                           *)
(***************************************************************************)
PointerAge == <<47, 97, 103, 101>>                        \* "/age"
PointerDegree == <<47, 100, 101, 103, 114, 101, 101>>     \* "/degree"
PointerName == <<47, 110, 97, 109, 101>>                  \* "/name"
Pointers == <<PointerAge, PointerDegree, PointerName>>

PointerField(pointer) ==
    CASE pointer = PointerAge -> "age"
      [] pointer = PointerDegree -> "degree"
      [] pointer = PointerName -> "name"
      [] OTHER -> "missing"

\* The properties a selection holds: what the pointers name, and with them
\* the @context, the id and the type of the node they are in.
SelectedFields(pointers, document) ==
    IF pointers = <<>> THEN {}
    ELSE { f \in {"context", "id", "type"} \cup
                 { PointerField(pointers[i]) : i \in 1..Len(pointers) } :
           Defined(document, f) }

\* selective.selectJsonLd(pointers, document): no document for no pointers.
selectJsonLd(pointers, document) ==
    [f \in SelectedFields(pointers, document) |-> document[f]]

\* The label an HMAC gives a canonical blank node label.
HmacLabel(o, algorithm, hmacKey, label) ==
    Bind(subtle_hmac(o, algorithm, hmacKey, RawBytes(label)),
         LAMBDA h : OkO(h.o, base64urlnopad_encode(h.val)))

InputLabel == <<98, 48>>                                   \* "b0"

Entries(nquads, keys) ==
    LET idx == SelectSeq([i \in 1..Len(nquads) |-> i - 1], LAMBDA i : i \in keys)
    IN [k \in 1..Len(idx) |-> <<idx[k], nquads[idx[k] + 1]>>]

Keys(map) == { map[i][1] : i \in 1..Len(map) }
Values(map) == [i \in 1..Len(map) |-> map[i][2]]

\* selective.canonicalizeAndGroup(document, createHmacIdLabelMapFunction(hmac),
\* groupDefinitions): the N-Quads with the blank node relabelled, the label
\* map from input labels, and for each group the N-Quads of its selection.
canonicalizeAndGroup(o, document, algorithm, hmacKey, groupDefinitions) ==
    Bind(IF Defined(document, "id") THEN OkO(o, <<>>)
         ELSE HmacLabel(o, algorithm, hmacKey, CanonicalLabel),
         LAMBDA label :
      LET unsecured == Delete(document, "proof")
          nquads == NQuads(unsecured, label.val)
          matchingKeys(pointers) ==
            { i \in 0..(Len(nquads) - 1) :
                nquads[i + 1].p \in SelectedFields(pointers, unsecured) }
          group(pointers) ==
            [matching |-> Entries(nquads, matchingKeys(pointers)),
             nonMatching |-> Entries(nquads, (0..(Len(nquads) - 1)) \ matchingKeys(pointers)),
             deskolemizedNQuads |->
               Values(Entries(NQuads(unsecured, InputLabel), matchingKeys(pointers)))]
      IN OkO(label.o,
             [groups |-> [name \in DOMAIN groupDefinitions |->
                            group(groupDefinitions[name])],
              labelMap |-> IF Defined(document, "id") THEN <<>>
                           ELSE << <<InputLabel, label.val>> >>]))

\* The canonicalIdMap of rdfc.canonize on N-Quads: input label to canonical
\* label, for the blank nodes in them.
canonicalIdMap(nquads) ==
    IF \E i \in 1..Len(nquads) : nquads[i].s.blank # <<>>
    THEN << <<InputLabel, CanonicalLabel>> >>
    ELSE <<>>

\* Map.get of a label map; undefined prints as "undefined".
LabelMapGet(labelMap, key) ==
    IF \E i \in 1..Len(labelMap) : labelMap[i][1] = key
    THEN labelMap[CHOOSE i \in 1..Len(labelMap) :
                    /\ labelMap[i][1] = key
                    /\ \A j \in (i + 1)..Len(labelMap) : labelMap[j][1] # key][2]
    ELSE <<117, 110, 100, 101, 102, 105, 110, 101, 100>>

\* selective.labelReplacementCanonicalizeJsonLd(document,
\* createLabelMapFunction(labelMap)): the canonical N-Quads, each blank node
\* under the label the map gives its canonical label.
labelReplacementCanonicalizeJsonLd(document, labelMap) ==
    NQuads(document, LabelMapGet(labelMap, CanonicalLabel))

\* selective.hashMandatoryNQuads(mandatory, hasher)
hashMandatoryNQuads(o, mandatory, curve) ==
    constructHasher(o, curve, TextEncode(mandatory))

(***************************************************************************)
(* suite/core.ts and selective/prepare.ts: ecdsa-sd-2023.  The key pair    *)
(* that generateRawKeypair makes and the bytes that getRandomValues fills  *)
(* in are arguments of the functions that ask for them.                    *)
(***************************************************************************)
serializeSignData(proofHash, publicKey, mandatoryHash) ==
    proofHash \o publicKey \o mandatoryHash

transformSd(o, unsecuredDocument, curve, proof, mandatoryPointers, rawHmacKey) ==
    IF proof.type # GENERAL_PROOF_TYPE \/ proof.cryptosuite # SUITE_SD
    THEN ErrO(o, PROOF_TRANSFORMATION_ERROR)
    ELSE Bind(canonicalizeAndGroup(o, unsecuredDocument,
                                   curveToDigestAlgorithm(curve).val, rawHmacKey,
                                   [mandatory |-> mandatoryPointers]),
              LAMBDA cg :
           OkO(cg.o, [mandatoryPointers |-> mandatoryPointers,
                      mandatory |-> cg.val.groups.mandatory.matching,
                      nonMandatory |-> cg.val.groups.mandatory.nonMatching,
                      hmacKey |-> rawHmacKey]))

configSd(unsecuredDocument, proof) ==
    LET proofConfig == proof
    IN IF proofConfig.type # GENERAL_PROOF_TYPE \/ proofConfig.cryptosuite # SUITE_SD
       THEN Err(PROOF_GENERATION_ERROR)
       ELSE IF StringTruthy(proofConfig.created)
               /\ ~NumberTruthy(DateParse(proofConfig.created))
       THEN Err(PROOF_GENERATION_ERROR)
       ELSE Ok(rdfc_normalize(Assign(proofConfig, "context", unsecuredDocument.context)))

hashSd(o, transformedDocument, canonicalProofConfig, curve) ==
    Bind(constructHasher(o, curve, TextEncode(canonicalProofConfig)), LAMBDA proofHash :
      IF ~IsOk(proofHash) THEN proofHash
      ELSE Bind(hashMandatoryNQuads(proofHash.o, Values(transformedDocument.mandatory),
                                    curve),
                LAMBDA mandatoryHash :
             OkO(mandatoryHash.o,
                 [mandatoryPointers |-> transformedDocument.mandatoryPointers,
                  mandatory |-> transformedDocument.mandatory,
                  nonMandatory |-> transformedDocument.nonMandatory,
                  hmacKey |-> transformedDocument.hmacKey,
                  proofHash |-> proofHash.val,
                  mandatoryHash |-> mandatoryHash.val])))

\* The signatures of the N-Quads, in their order.
RECURSIVE SignEach(_, _, _, _)
SignEach(o, algorithm, privateKey, nquads) ==
    IF nquads = <<>> THEN OkO(o, <<>>)
    ELSE Bind(subtle_sign(o, algorithm, privateKey, TextEncode(<<Head(nquads)>>)),
              LAMBDA signature :
           Bind(SignEach(signature.o, algorithm, privateKey, Tail(nquads)),
                LAMBDA rest : OkO(rest.o, <<signature.val>> \o rest.val)))

\* A faulty serializeSd: the N-Quads are signed with the digest of the
\* issuer's curve.
serializeSd_issuerDigest(o, hashData, curve, proof, scoped) ==
    LET localCurve == P256
        localAlgorithm == curveToDigestAlgorithm(curve).val
        publicKeyMaterial ==
          keyToMaterial(PublicCryptoKey(localCurve, KeyX(scoped), KeyY(scoped)),
                        "public", localCurve)
    IN Bind(SignEach(o, localAlgorithm, PrivateCryptoKey(localCurve, KeyD(scoped)),
                     Values(hashData.nonMandatory)),
            LAMBDA signatures :
         Bind(materialToMultibase(publicKeyMaterial.val, "public", localCurve),
              LAMBDA publicKeyMultibase :
           Bind(base58btc_decode(publicKeyMultibase.val), LAMBDA publicKey :
             Bind(retrieveVerificationMethod(proof.verificationMethod), LAMBDA method :
               IF ~IsOk(method) THEN ErrO(signatures.o, method.err)
               ELSE Bind(ECKeypair_import(method.val, curve), LAMBDA keypair :
                 IF ~IsOk(keypair) THEN ErrO(signatures.o, keypair.err)
                 ELSE IF keypair.val.privateKey = NoKey
                 THEN ErrO(signatures.o, INVALID_VERIFICATION_METHOD)
                 ELSE Bind(subtle_sign(signatures.o, curveToDigestAlgorithm(curve).val,
                                       keypair.val.privateKey,
                                       RawBytes(serializeSignData(hashData.proofHash,
                                                                  publicKey.val,
                                                                  hashData.mandatoryHash))),
                           LAMBDA baseSignature :
                      Bind(serializeBaseProofValue(
                             [baseSignature |-> baseSignature.val,
                              publicKey |-> publicKey.val,
                              hmacKey |-> hashData.hmacKey,
                              signatures |-> signatures.val,
                              mandatoryPointers |-> hashData.mandatoryPointers]),
                           LAMBDA proofValue :
                        IF IsOk(proofValue) THEN OkO(baseSignature.o, proofValue.val)
                        ELSE ErrO(baseSignature.o, proofValue.err))))))))

\* proofScopedKeyPair is the key pair `scoped` of KeyIds.
serializeSd(o, hashData, curve, proof, scoped) ==
    LET localCurve == P256
        localAlgorithm == curveToDigestAlgorithm(localCurve).val
        publicKeyMaterial ==
          keyToMaterial(PublicCryptoKey(localCurve, KeyX(scoped), KeyY(scoped)),
                        "public", localCurve)
    IN Bind(SignEach(o, localAlgorithm, PrivateCryptoKey(localCurve, KeyD(scoped)),
                     Values(hashData.nonMandatory)),
            LAMBDA signatures :
         Bind(materialToMultibase(publicKeyMaterial.val, "public", localCurve),
              LAMBDA publicKeyMultibase :
           Bind(base58btc_decode(publicKeyMultibase.val), LAMBDA publicKey :
             Bind(retrieveVerificationMethod(proof.verificationMethod), LAMBDA method :
               IF ~IsOk(method) THEN ErrO(signatures.o, method.err)
               ELSE Bind(ECKeypair_import(method.val, curve), LAMBDA keypair :
                 IF ~IsOk(keypair) THEN ErrO(signatures.o, keypair.err)
                 ELSE IF keypair.val.privateKey = NoKey
                 THEN ErrO(signatures.o, INVALID_VERIFICATION_METHOD)
                 ELSE Bind(subtle_sign(signatures.o, curveToDigestAlgorithm(curve).val,
                                       keypair.val.privateKey,
                                       RawBytes(serializeSignData(hashData.proofHash,
                                                                  publicKey.val,
                                                                  hashData.mandatoryHash))),
                           LAMBDA baseSignature :
                      Bind(serializeBaseProofValue(
                             [baseSignature |-> baseSignature.val,
                              publicKey |-> publicKey.val,
                              hmacKey |-> hashData.hmacKey,
                              signatures |-> signatures.val,
                              mandatoryPointers |-> hashData.mandatoryPointers]),
                           LAMBDA proofValue :
                        IF IsOk(proofValue) THEN OkO(baseSignature.o, proofValue.val)
                        ELSE ErrO(baseSignature.o, proofValue.err))))))))

\* A faulty MandatoryIndexes: the counter advances on mandatory keys only.
MandatoryIndexes_countedInBranch(combinedKeys, mandatoryKeys) ==
    [i \in 1..Cardinality({ k \in 1..Len(combinedKeys) :
                              combinedKeys[k] \in mandatoryKeys }) |-> i - 1]

\* A faulty MandatoryIndexes: the absolute indexes, not the relative ones.
MandatoryIndexes_absolute(combinedKeys, mandatoryKeys) ==
    SelectSeq(combinedKeys, LAMBDA absoluteIndex : absoluteIndex \in mandatoryKeys)

\* The positions, in the keys of combined.matching, of the mandatory ones.
MandatoryIndexes(combinedKeys, mandatoryKeys) ==
    SelectSeq([i \in 1..Len(combinedKeys) |-> i - 1],
              LAMBDA relativeIndex : combinedKeys[relativeIndex + 1] \in mandatoryKeys)

\* A faulty SkipMandatory: an `if` for the `while`.
SkipMandatory_once(index, mandatoryKeys) ==
    IF index \in mandatoryKeys THEN index + 1 ELSE index

\* while (mandatoryGroup.matching.has(index)) index++
RECURSIVE SkipMandatory(_, _)
SkipMandatory(index, mandatoryKeys) ==
    IF index \in mandatoryKeys THEN SkipMandatory(index + 1, mandatoryKeys) ELSE index

\* A faulty FilterSignatures: the counter does not pass the mandatory keys.
RECURSIVE FilterSignatures_mandatoryCounted(_, _, _, _)
FilterSignatures_mandatoryCounted(signatures, index, mandatoryKeys, selectiveKeys) ==
    IF signatures = <<>> THEN <<>>
    ELSE (IF index \in selectiveKeys THEN <<Head(signatures)>> ELSE <<>>)
         \o FilterSignatures_mandatoryCounted(Tail(signatures), index + 1,
                                              mandatoryKeys, selectiveKeys)

\* signatures.filter(...) with its counter `index`.
RECURSIVE FilterSignatures(_, _, _, _)
FilterSignatures(signatures, index, mandatoryKeys, selectiveKeys) ==
    IF signatures = <<>> THEN <<>>
    ELSE LET at == SkipMandatory(index, mandatoryKeys)
         IN (IF at \in selectiveKeys THEN <<Head(signatures)>> ELSE <<>>)
            \o FilterSignatures(Tail(signatures), at + 1, mandatoryKeys, selectiveKeys)

createDisclosureData(o, document, proof, selectivePointers, curve) ==
    Bind(parseBaseProofValue(proof.proofValue), LAMBDA parsed :
      IF ~IsOk(parsed) THEN ErrO(o, parsed.err)
      ELSE
        LET mandatoryPointers == parsed.val.mandatoryPointers
            combinedPointers == mandatoryPointers \o selectivePointers
        IN Bind(canonicalizeAndGroup(o, document, curveToDigestAlgorithm(curve).val,
                                     parsed.val.hmacKey,
                                     [mandatory |-> mandatoryPointers,
                                      selective |-> selectivePointers,
                                      combined |-> combinedPointers]),
                LAMBDA cg :
             LET mandatoryGroup == cg.val.groups.mandatory
                 selectiveGroup == cg.val.groups.selective
                 combinedGroup == cg.val.groups.combined
                 idMap == canonicalIdMap(combinedGroup.deskolemizedNQuads)
             IN OkO(cg.o,
                    [baseSignature |-> parsed.val.baseSignature,
                     publicKey |-> parsed.val.publicKey,
                     signatures |->
                       FilterSignatures(parsed.val.signatures, 0,
                                        Keys(mandatoryGroup.matching),
                                        Keys(selectiveGroup.matching)),
                     labelMap |->
                       [i \in 1..Len(idMap) |->
                          <<idMap[i][2], LabelMapGet(cg.val.labelMap, idMap[i][1])>>],
                     mandatoryIndexes |->
                       MandatoryIndexes([i \in 1..Len(combinedGroup.matching) |->
                                           combinedGroup.matching[i][1]],
                                        Keys(mandatoryGroup.matching)),
                     revealDocument |-> selectJsonLd(combinedPointers, document)])))

deriveSd(o, document, proof, curve, selectivePointers) ==
    Bind(createDisclosureData(o, document, proof, selectivePointers, curve),
         LAMBDA data :
      IF ~IsOk(data) THEN data
      ELSE Bind(serializeDerivedProofValue(
                  [baseSignature |-> data.val.baseSignature,
                   publicKey |-> data.val.publicKey,
                   signatures |-> data.val.signatures,
                   labelMap |-> data.val.labelMap,
                   mandatoryIndexes |-> data.val.mandatoryIndexes]),
                LAMBDA proofValue :
             IF IsOk(proofValue) THEN OkO(data.o, proofValue.val)
             ELSE ErrO(data.o, proofValue.err)))

\* _hashCanonizedProof: the proof under the document's @context unless it has
\* one of its own, without its proofValue.
CanonizedProof(document, proof) ==
    rdfc_normalize(Delete(IF "context" \in DOMAIN proof THEN proof
                          ELSE Assign(proof, "context",
                                      IF "context" \in DOMAIN document
                                      THEN document.context ELSE Undefined),
                          "proofValue"))

createVerifyData(o, document, proof, curve) ==
    Bind(subtle_digest(o, curveToDigestAlgorithm(curve).val,
                       TextEncode(CanonizedProof(document, proof))),
         LAMBDA proofHash :
      Bind(parseDerivedProofValue(proof.proofValue), LAMBDA parsed :
        IF ~IsOk(parsed) THEN ErrO(proofHash.o, parsed.err)
        ELSE
          LET nQuads == labelReplacementCanonicalizeJsonLd(document, parsed.val.labelMap)
              includes(index) ==
                \E i \in 1..Len(parsed.val.mandatoryIndexes) :
                   parsed.val.mandatoryIndexes[i] = index
              positions == [i \in 1..Len(nQuads) |-> i]
              mandatory == SelectSeq(positions, LAMBDA i : includes(i - 1))
              nonMandatory == SelectSeq(positions, LAMBDA i : ~includes(i - 1))
          IN Bind(hashMandatoryNQuads(proofHash.o,
                                      [k \in 1..Len(mandatory) |-> nQuads[mandatory[k]]],
                                      curve),
                  LAMBDA mandatoryHash :
               OkO(mandatoryHash.o,
                   [baseSignature |-> parsed.val.baseSignature,
                    proofHash |-> proofHash.val,
                    publicKey |-> parsed.val.publicKey,
                    signatures |-> parsed.val.signatures,
                    nonMandatory |->
                      [k \in 1..Len(nonMandatory) |-> nQuads[nonMandatory[k]]],
                    mandatoryHash |-> mandatoryHash.val]))))

\* What verification ends with: a value or an error, and with it the calls
\* made to the document loader and to crypto.subtle.verify, in their order.
Returned(o, v, calls) == [err |-> NoErr, val |-> v, o |-> o, calls |-> calls]
Raised(o, e, calls) == [err |-> e, val |-> FALSE, o |-> o, calls |-> calls]

\* A faulty Verified: one statement that verifies is enough.
Verified_someStatement(verificationCheck, verificationChecks) ==
    /\ verificationCheck
    /\ \/ verificationChecks = <<>>
       \/ \E index \in 1..Len(verificationChecks) : verificationChecks[index]

\* A faulty Verified: the checks of the statements are left out.
Verified_baseOnly(verificationCheck, verificationChecks) ==
    verificationCheck

\* verified, after the check of the base signature and those of the statements.
Verified(verificationCheck, verificationChecks) ==
    /\ verificationCheck
    /\ ~(\E index \in 1..Len(verificationChecks) : verificationChecks[index] = FALSE)

\* A faulty verifySd: the signatures are counted after the base signature
\* has been verified.
verifySd_countedLate(o, unsecuredDocument, proof, curve) ==
    Bind(createVerifyData(o, unsecuredDocument, proof, curve), LAMBDA data :
      IF ~IsOk(data) THEN Raised(data.o, data.err, <<>>)
      ELSE Bind(retrieveVerificationMethod(proof.verificationMethod), LAMBDA method :
        IF ~IsOk(method) THEN Raised(data.o, method.err, <<"retrieveVerificationMethod">>)
        ELSE Bind(ECKeypair_import(method.val, curve), LAMBDA keypair :
          IF ~IsOk(keypair)
          THEN Raised(data.o, keypair.err, <<"retrieveVerificationMethod">>)
          ELSE IF keypair.val.publicKey = NoKey
          THEN Raised(data.o, INVALID_VERIFICATION_METHOD, <<"retrieveVerificationMethod">>)
          ELSE
            LET algorithm == curveToDigestAlgorithm(curve).val
                toVerify == serializeSignData(data.val.proofHash, data.val.publicKey,
                                              data.val.mandatoryHash)
                verificationCheck ==
                  subtle_verify(data.o, algorithm, keypair.val.publicKey,
                                data.val.baseSignature, RawBytes(toVerify))
                localCurve == P256
                localAlgorithm == curveToDigestAlgorithm(localCurve).val
                called == <<"retrieveVerificationMethod", "verify">>
            IN IF Len(data.val.signatures) # Len(data.val.nonMandatory)
               THEN Raised(data.o, PROOF_VERIFICATION_ERROR, called)
               ELSE Bind(multibaseToMaterial(base58btc_encode(data.val.publicKey), "public",
                                        localCurve),
                    LAMBDA publicKeyMaterial :
                 IF ~IsOk(publicKeyMaterial)
                 THEN Raised(data.o, publicKeyMaterial.err, called)
                 ELSE Bind(materialToPublicKey(publicKeyMaterial.val, localCurve),
                           LAMBDA publicCryptoKey :
                   IF ~IsOk(publicCryptoKey)
                   THEN Raised(data.o, publicCryptoKey.err, called)
                   ELSE
                     LET verificationChecks ==
                           [index \in 1..Len(data.val.signatures) |->
                              subtle_verify(data.o, localAlgorithm, publicCryptoKey.val,
                                            data.val.signatures[index],
                                            TextEncode(<<data.val.nonMandatory[index]>>))]
                     IN Returned(data.o,
                                 Verified(verificationCheck, verificationChecks),
                                 called \o [index \in 1..Len(verificationChecks) |->
                                              "verify"]))))))

verifySd(o, unsecuredDocument, proof, curve) ==
    Bind(createVerifyData(o, unsecuredDocument, proof, curve), LAMBDA data :
      IF ~IsOk(data) THEN Raised(data.o, data.err, <<>>)
      ELSE IF Len(data.val.signatures) # Len(data.val.nonMandatory)
      THEN Raised(data.o, PROOF_VERIFICATION_ERROR, <<>>)
      ELSE Bind(retrieveVerificationMethod(proof.verificationMethod), LAMBDA method :
        IF ~IsOk(method) THEN Raised(data.o, method.err, <<"retrieveVerificationMethod">>)
        ELSE Bind(ECKeypair_import(method.val, curve), LAMBDA keypair :
          IF ~IsOk(keypair)
          THEN Raised(data.o, keypair.err, <<"retrieveVerificationMethod">>)
          ELSE IF keypair.val.publicKey = NoKey
          THEN Raised(data.o, INVALID_VERIFICATION_METHOD, <<"retrieveVerificationMethod">>)
          ELSE
            LET algorithm == curveToDigestAlgorithm(curve).val
                toVerify == serializeSignData(data.val.proofHash, data.val.publicKey,
                                              data.val.mandatoryHash)
                verificationCheck ==
                  subtle_verify(data.o, algorithm, keypair.val.publicKey,
                                data.val.baseSignature, RawBytes(toVerify))
                localCurve == P256
                localAlgorithm == curveToDigestAlgorithm(localCurve).val
                called == <<"retrieveVerificationMethod", "verify">>
            IN Bind(multibaseToMaterial(base58btc_encode(data.val.publicKey), "public",
                                        localCurve),
                    LAMBDA publicKeyMaterial :
                 IF ~IsOk(publicKeyMaterial)
                 THEN Raised(data.o, publicKeyMaterial.err, called)
                 ELSE Bind(materialToPublicKey(publicKeyMaterial.val, localCurve),
                           LAMBDA publicCryptoKey :
                   IF ~IsOk(publicCryptoKey)
                   THEN Raised(data.o, publicCryptoKey.err, called)
                   ELSE
                     LET verificationChecks ==
                           [index \in 1..Len(data.val.signatures) |->
                              subtle_verify(data.o, localAlgorithm, publicCryptoKey.val,
                                            data.val.signatures[index],
                                            TextEncode(<<data.val.nonMandatory[index]>>))]
                     IN Returned(data.o,
                                 Verified(verificationCheck, verificationChecks),
                                 called \o [index \in 1..Len(verificationChecks) |->
                                              "verify"]))))))

(***************************************************************************)
(* suite/sd.ts: EcdsaSd2023                                                *)
(***************************************************************************)
EcdsaSd2023_createProof(o, unsecuredDocument, curve, proofOptions, mandatoryPointers, rawHmacKey, scoped) ==
    LET proof == proofOptions
    IN Bind(configSd(unsecuredDocument, proofOptions), LAMBDA proofConfig :
         IF ~IsOk(proofConfig) THEN ErrO(o, proofConfig.err)
         ELSE Bind(transformSd(o, unsecuredDocument, curve, proofOptions,
                               mandatoryPointers, rawHmacKey),
                   LAMBDA transformedData :
           IF ~IsOk(transformedData) THEN transformedData
           ELSE Bind(hashSd(transformedData.o, transformedData.val, proofConfig.val, curve),
                     LAMBDA hashData :
             IF ~IsOk(hashData) THEN hashData
             ELSE Bind(serializeSd(hashData.o, hashData.val, curve, proofOptions, scoped),
                       LAMBDA proofValue :
               IF ~IsOk(proofValue) THEN proofValue
               ELSE OkO(proofValue.o, Assign(proof, "proofValue", proofValue.val))))))

EcdsaSd2023_deriveProof(o, securedDocument, curve, selectivePointers) ==
    LET unsecuredCredential == Delete(securedDocument, "proof")
        newProof == securedDocument.proof
    IN Bind(deriveSd(o, unsecuredCredential, newProof, curve, selectivePointers),
            LAMBDA proofValue :
         IF ~IsOk(proofValue) THEN proofValue
         ELSE OkO(proofValue.o, Assign(newProof, "proofValue", proofValue.val)))

EcdsaSd2023_verifyProof(o, securedDocument, curve) ==
    LET unsecuredCredential == Delete(securedDocument, "proof")
        proof == securedDocument.proof
    IN Bind(verifySd(o, unsecuredCredential, proof, curve), LAMBDA verified :
         IF ~IsOk(verified) THEN verified
         ELSE Returned(verified.o, Verification(verified.val, unsecuredCredential),
                       verified.calls))

(***************************************************************************)
(* Proof values for the serialization functions.  MaxItems bounds the      *)
(* number of signatures, pointers and indexes, MaxLabels the entries of a  *)
(* label map.                                                              *)
(***************************************************************************)
MaxItems == 2
MaxLabels == 2

\* A compressed P-256 public key behind its multicodec prefix: 35 bytes.
SamplePublicKey == <<128, 36, 2>> \o Fill(32, 7)
SampleSignature(i) == Fill(64, (i * 67) % 256)
SamplePointer(i) == <<47, 96 + i>>                       \* "/a", "/b", ...
SampleIndex(i) == CASE i = 1 -> 24 [] i = 2 -> 0 - 1 [] i = 3 -> 300 [] OTHER -> i

C14N(digits) == BLANK_LABEL \o digits
\* Label map entries: the keys "c14n1", "c14n01", "c14n0", "c14n1x", "c14n-1",
\* "c14n300", "c14n" and "x0" with base64url values, then "c14n2" and "c14n"
\* with the value "zAA", which is not base64url-no-pad.
LabelPool ==
    << <<C14N(<<49>>), base64urlnopad_encode(Fill(32, 1))>>,
       <<C14N(<<48, 49>>), base64urlnopad_encode(Fill(32, 2))>>,
       <<C14N(<<48>>), base64urlnopad_encode(Fill(32, 3))>>,
       <<C14N(<<49, 120>>), base64urlnopad_encode(Fill(32, 4))>>,
       <<C14N(<<45, 49>>), base64urlnopad_encode(Fill(32, 5))>>,
       <<C14N(<<51, 48, 48>>), base64urlnopad_encode(<<1, 2>>)>>,
       <<C14N(<<>>), base64urlnopad_encode(Fill(32, 7))>>,
       <<<<120, 48>>, base64urlnopad_encode(Fill(32, 8))>>,
       <<C14N(<<50>>), <<122, 65, 65>>>>,
       <<C14N(<<>>), <<122, 65, 65>>>> >>

\* The label maps: up to MaxLabels consecutive entries of the pool.
LabelMaps ==
    { SubSeq(LabelPool, from, Min(from + n - 1, Len(LabelPool))) :
        from \in 1..Len(LabelPool), n \in 0..MaxLabels }

BaseValues ==
    { [baseSignature |-> Fill(n, 1), publicKey |-> SamplePublicKey,
       hmacKey |-> Fill(h, 4),
       signatures |-> [i \in 1..k |-> SampleSignature(i)],
       mandatoryPointers |-> [i \in 1..m |-> SamplePointer(i)]] :
      n \in {64, 96, 65}, h \in {32, 48}, k \in 0..MaxItems, m \in 0..MaxItems }

DerivedValues ==
    { [baseSignature |-> Fill(n, 1), publicKey |-> SamplePublicKey,
       signatures |-> [i \in 1..k |-> IF i = MaxItems THEN <<9>> ELSE SampleSignature(i)],
       labelMap |-> lm,
       mandatoryIndexes |-> [i \in 1..k |-> SampleIndex(i)]] :
      n \in {64, 96}, k \in 0..MaxItems, lm \in LabelMaps }

(***************************************************************************)
(* The serialization functions at work: a proof value is serialized, the   *)
(* string may be damaged on its way, and either parser reads it.           *)
(***************************************************************************)
CodecInit ==
    /\ \E k \in {"base", "derived", "labels"} :
         \E v \in (CASE k = "base" -> BaseValues
                     [] k = "derived" -> DerivedValues
                     [] k = "labels" -> LabelMaps) :
           codec = [pc |-> "start", kind |-> k, value |-> v, str |-> Ok(<<>>),
                    how |-> "none", parser |-> "none", res |-> Err("unset")]
    /\ rj = Idle /\ sd = Idle /\ oracle = <<>> /\ kp = Idle

\* compressLabelMap(labelMap): str holds the compressed label map.
CompressLabels ==
    /\ codec.pc = "start" /\ codec.kind = "labels"
    /\ codec' = [codec EXCEPT !.pc = "compressed",
                              !.str = compressLabelMap(codec.value)]
    /\ UNCHANGED <<kp, rj, sd, oracle>>

\* decompressLabelMap of the map compressLabelMap returned.
DecompressLabels ==
    /\ codec.pc = "compressed" /\ IsOk(codec.str)
    /\ codec' = [codec EXCEPT !.pc = "decompressed",
                              !.res = Ok(decompressLabelMap(codec.str.val))]
    /\ UNCHANGED <<kp, rj, sd, oracle>>

SerializeBase ==
    /\ codec.pc = "start" /\ codec.kind = "base"
    /\ codec' = [codec EXCEPT !.pc = "serialized",
                              !.str = serializeBaseProofValue(codec.value)]
    /\ UNCHANGED <<kp, rj, sd, oracle>>

SerializeDerived ==
    /\ codec.pc = "start" /\ codec.kind = "derived"
    /\ codec' = [codec EXCEPT !.pc = "serialized",
                              !.str = serializeDerivedProofValue(codec.value)]
    /\ UNCHANGED <<kp, rj, sd, oracle>>

\* The string loses or changes its multibase prefix.
DamagePrefix ==
    /\ codec.pc = "serialized" /\ IsOk(codec.str)
    /\ \E s \in { Tail(codec.str.val), <<122>> \o Tail(codec.str.val) } :
         codec' = [codec EXCEPT !.pc = "damaged", !.how = "prefix", !.str = Ok(s)]
    /\ UNCHANGED <<kp, rj, sd, oracle>>

\* One of the three header bytes of the encoded value is replaced.
DamageHeader ==
    /\ codec.pc = "serialized" /\ IsOk(codec.str)
    /\ \E b \in { base64urlnopad_decode(codec.str.val).val } :
         \E i \in 1..3 : \E x \in {0, 1, 217} :
            /\ b[i] # x
            /\ codec' = [codec EXCEPT !.pc = "damaged", !.how = "header",
                           !.str = Ok(base64urlnopad_encode([b EXCEPT ![i] = x]))]
    /\ UNCHANGED <<kp, rj, sd, oracle>>

\* Only the first n bytes of the encoded value arrive.
DamageLength ==
    /\ codec.pc = "serialized" /\ IsOk(codec.str)
    /\ \E b \in { base64urlnopad_decode(codec.str.val).val } :
         \E n \in 0..3 :
            codec' = [codec EXCEPT !.pc = "damaged", !.how = "length",
                        !.str = Ok(base64urlnopad_encode(Slice(b, 0, n)))]
    /\ UNCHANGED <<kp, rj, sd, oracle>>

ParseBase ==
    /\ codec.pc \in {"serialized", "damaged"} /\ IsOk(codec.str)
    /\ codec' = [codec EXCEPT !.pc = "parsed", !.parser = "base",
                              !.res = parseBaseProofValue(codec.str.val)]
    /\ UNCHANGED <<kp, rj, sd, oracle>>

ParseDerived ==
    /\ codec.pc \in {"serialized", "damaged"} /\ IsOk(codec.str)
    /\ codec' = [codec EXCEPT !.pc = "parsed", !.parser = "derived",
                              !.res = parseDerivedProofValue(codec.str.val)]
    /\ UNCHANGED <<kp, rj, sd, oracle>>

CodecNext ==
    \/ SerializeBase \/ SerializeDerived
    \/ CompressLabels \/ DecompressLabels
    \/ DamagePrefix \/ DamageHeader \/ DamageLength
    \/ ParseBase \/ ParseDerived

SpecCodec == CodecInit /\ [][CodecNext]_vars

(***************************************************************************)
(* Properties of the serialization functions, under SpecCodec.             *)
(***************************************************************************)
CodecRoundTripped ==
    /\ codec.pc = "parsed" /\ codec.how = "none" /\ codec.parser = codec.kind

\* C9: every proof value that its serializer accepts is returned unchanged by
\* the matching parser: parseBaseProofValue(serializeBaseProofValue(v)) = v and
\* parseDerivedProofValue(serializeDerivedProofValue(v)) = v, label map included.
C9_RoundTrip ==
    CodecRoundTripped => (IsOk(codec.res) /\ codec.res.val = codec.value)

\* A derived proof value whose label map has the key "c14n01" comes back with
\* the key "c14n1".
C9_KeyRewritten ==
    /\ CodecRoundTripped /\ codec.kind = "derived" /\ IsOk(codec.res)
    /\ codec.value.labelMap # <<>>
    /\ codec.value.labelMap[1][1] = C14N(<<48, 49>>)
    /\ codec.res.val.labelMap[1][1] = C14N(<<49>>)

CodecExpectedHeader == IF codec.parser = "base" THEN CBOR_BASE ELSE CBOR_DERIVED

\* C10: a parser raises PROOF_VERIFICATION_ERROR for every string that does not
\* begin with "u" and for every decoded value whose first three bytes are not
\* the parser's header; so neither parser accepts the other's proof values.
C10_HeaderChecked ==
    codec.pc = "parsed" =>
      LET str == codec.str.val
          decoded == base64urlnopad_decode(str)
      IN /\ (str = <<>> \/ str[1] # 117) => codec.res.err = PROOF_VERIFICATION_ERROR
         /\ (IsOk(decoded) /\ Slice(decoded.val, 0, 3) # CodecExpectedHeader)
              => codec.res.err = PROOF_VERIFICATION_ERROR
         /\ (codec.how = "none" /\ codec.parser # codec.kind)
              => codec.res.err = PROOF_VERIFICATION_ERROR

\* A base proof value whose header alone was changed reaches parseBaseProofValue
\* and is rejected; so is an undamaged one by parseDerivedProofValue.
C10_HeaderRejected ==
    /\ codec.pc = "parsed" /\ codec.kind = "base" /\ codec.parser = "base"
    /\ codec.how = "header"
    /\ codec.res.err = PROOF_VERIFICATION_ERROR
    /\ LET decoded == base64urlnopad_decode(codec.str.val).val
       IN IsOk(cbor_decode(Slice(decoded, 3, Len(decoded))))

\* Every key is "c14n" followed by one or more decimal digits.
LabelKeysNumeric(labelMap) ==
    \A i \in 1..Len(labelMap) :
       LET key == labelMap[i][1]
       IN /\ StartsWith(key, BLANK_LABEL) /\ Len(key) > Len(BLANK_LABEL)
          /\ \A j \in (Len(BLANK_LABEL) + 1)..Len(key) : IsDigit(key[j])

\* C11: for every label map that compressLabelMap accepts, whose keys are
\* "c14n" followed by a base-10 integer, decompressLabelMap(compressLabelMap(L))
\* is L: the same keys with their values, no two keys become one entry.
C11_LabelRoundTrip ==
    (codec.pc = "decompressed" /\ LabelKeysNumeric(codec.value))
      => codec.res.val = codec.value

\* The keys "c14n1" and "c14n01" of a label map come back as the one key
\* "c14n1", with the value of the second.
C11_KeysCollapsed ==
    /\ codec.pc = "decompressed" /\ LabelKeysNumeric(codec.value)
    /\ Len(codec.value) = 2 /\ Len(codec.res.val) = 1
    /\ codec.res.val[1] = <<C14N(<<49>>), codec.value[2][2]>>

\* The shape the derived proof value is to have: a base signature of 64 or 96
\* bytes, a public key of 35, signatures of 64 bytes each, a label map from
\* non-negative integers to 32 bytes, and non-negative mandatory indexes.
DerivedShape(value) ==
    /\ Len(value.baseSignature) \in {64, 96}
    /\ Len(value.publicKey) = 35
    /\ \A i \in 1..Len(value.signatures) : Len(value.signatures[i]) = 64
    /\ \A i \in 1..Len(value.labelMap) :
          /\ value.labelMap[i][1][Len(BLANK_LABEL) + 1] # 45
          /\ Len(base64urlnopad_decode(value.labelMap[i][2]).val) = 32
    /\ \A i \in 1..Len(value.mandatoryIndexes) : value.mandatoryIndexes[i] >= 0

\* C19: parseDerivedProofValue accepts a value only if it has the shape of a
\* derived proof value, and raises PROOF_VERIFICATION_ERROR for every other.
C19_DerivedShapeChecked ==
    (codec.pc = "parsed" /\ codec.parser = "derived") =>
      IF IsOk(codec.res) THEN DerivedShape(codec.res.val)
      ELSE codec.res = Err(PROOF_VERIFICATION_ERROR)

\* A derived proof value with a signature of one byte and the mandatory index
\* -1 was accepted.
C19_ShortSignatureAccepted ==
    /\ codec.pc = "parsed" /\ codec.parser = "derived" /\ IsOk(codec.res)
    /\ \E i \in 1..Len(codec.res.val.signatures) : Len(codec.res.val.signatures[i]) = 1
    /\ \E i \in 1..Len(codec.res.val.mandatoryIndexes) : codec.res.val.mandatoryIndexes[i] < 0

(***************************************************************************)
(* ecdsa-rdfc-2019 and ecdsa-jcs-2019 at work: a document is secured with  *)
(* one suite, it may be changed on its way, and a suite verifies it.       *)
(***************************************************************************)
Documents ==
    { [context |-> c, id |-> "urn:credential:1", name |-> n] :
        c \in {"https://www.w3.org/ns/credentials/v2", "https://w3id.org/security/data-integrity/v2"},
        n \in {"Alice", "Bob"} }

CreatedValues ==
    { Undefined, "", "1970-01-01T00:00:00Z", "1970-01-01T00:00:01Z",
      "1969-12-31T23:59:59Z", "1970-01-02", "yesterday" }

ProofOptions ==
    { [type |-> t, cryptosuite |-> cs, created |-> cr, verificationMethod |-> vm,
       proofPurpose |-> "assertionMethod"] :
        t \in {GENERAL_PROOF_TYPE, "Ed25519Signature2020"},
        cs \in {SUITE_RDFC, SUITE_JCS, SUITE_SD},
        cr \in CreatedValues,
        vm \in {"did:example:issuer#p256", "did:example:issuer#p384",
                "did:example:issuer#public"} }

RjInit ==
    /\ \E su \in {"rdfc", "jcs"} : \E cu \in Curves :
         \E d \in Documents : \E p \in ProofOptions :
           rj = [pc |-> "start", suite |-> su, curve |-> cu, document |-> d,
                 options |-> p, config |-> Err("unset"), hash |-> Err("unset"),
                 proof |-> Err("unset"), secured |-> d, how |-> "none",
                 verifier |-> "none", result |-> Err("unset")]
    /\ codec = Idle /\ sd = Idle /\ oracle = <<>> /\ kp = Idle

\* What createProof leaves: the proof, and the results of the configuration
\* and hashing steps it went through.
AfterCreate(r, config, transformed) ==
    /\ rj' = [rj EXCEPT
                !.pc = IF IsOk(r) THEN "secured" ELSE "failed",
                !.config = config,
                !.hash = IF IsOk(config) /\ IsOk(transformed)
                         THEN Bind(hashRdfcJcs(oracle, transformed.val, config.val, rj.curve),
                                   LAMBDA h : [err |-> h.err, val |-> h.val])
                         ELSE Err("not reached"),
                !.proof = [err |-> r.err, val |-> r.val],
                !.secured = IF IsOk(r) THEN Assign(rj.document, "proof", r.val)
                            ELSE rj.document]
    /\ oracle' = r.o

RdfcCreateProof ==
    /\ rj.pc = "start" /\ rj.suite = "rdfc"
    /\ \E r \in { EcdsaRdfc2019_createProof(oracle, rj.document, rj.curve, rj.options) } :
         AfterCreate(r, configRdfc(rj.document, rj.options),
                     transformRdfc(rj.document, rj.options))
    /\ UNCHANGED <<kp, codec, sd>>

JcsCreateProof ==
    /\ rj.pc = "start" /\ rj.suite = "jcs"
    /\ \E r \in { EcdsaJcs2019_createProof(oracle, rj.document, rj.curve, rj.options) } :
         AfterCreate(r, configJcs(rj.options), transformJcs(rj.document, rj.options))
    /\ UNCHANGED <<kp, codec, sd>>

\* The secured document's name is changed.
TamperDocument ==
    /\ rj.pc = "secured"
    /\ rj' = [rj EXCEPT !.pc = "tampered", !.how = "document",
                        !.secured.name = "Mallory"]
    /\ UNCHANGED <<kp, codec, sd, oracle>>

\* A property of the proof is changed.
TamperProof ==
    /\ rj.pc = "secured"
    /\ \E f \in {"type", "cryptosuite", "created", "verificationMethod"} :
         \E v \in {"Ed25519Signature2020", SUITE_SD, "1970-01-01T00:00:01Z", "yesterday",
                   "did:example:other#p256", "did:example:unknown"} :
           /\ v # rj.secured.proof[f]
           /\ (f = "type") = (v = "Ed25519Signature2020")
           /\ (f = "cryptosuite") = (v = SUITE_SD)
           /\ (f = "verificationMethod") = (v \in {"did:example:other#p256", "did:example:unknown"})
           /\ rj' = [rj EXCEPT !.pc = "tampered", !.how = f, !.secured.proof[f] = v]
    /\ UNCHANGED <<kp, codec, sd, oracle>>

\* One character of the proof value is changed.
TamperProofValue ==
    /\ rj.pc = "secured"
    /\ \E i \in {1, 2, Len(rj.secured.proof.proofValue)} : \E c \in {49, 48, 122} :
         /\ rj.secured.proof.proofValue[i] # c
         /\ rj' = [rj EXCEPT !.pc = "tampered", !.how = "proofValue",
                             !.secured.proof.proofValue[i] = c]
    /\ UNCHANGED <<kp, codec, sd, oracle>>

AfterVerify(r, by) ==
    /\ rj' = [rj EXCEPT !.pc = "verified", !.verifier = by,
                        !.result = [err |-> r.err, val |-> r.val]]
    /\ oracle' = r.o

RdfcVerifyProof ==
    /\ rj.pc \in {"secured", "tampered"}
    /\ \E r \in { EcdsaRdfc2019_verifyProof(oracle, rj.secured, rj.curve) } :
         AfterVerify(r, "rdfc")
    /\ UNCHANGED <<kp, codec, sd>>

JcsVerifyProof ==
    /\ rj.pc \in {"secured", "tampered"}
    /\ \E r \in { EcdsaJcs2019_verifyProof(oracle, rj.secured, rj.curve) } :
         AfterVerify(r, "jcs")
    /\ UNCHANGED <<kp, codec, sd>>

RjNext ==
    \/ RdfcCreateProof \/ JcsCreateProof
    \/ TamperDocument \/ TamperProof \/ TamperProofValue
    \/ RdfcVerifyProof \/ JcsVerifyProof

SpecRdfcJcs == RjInit /\ [][RjNext]_vars

(***************************************************************************)
(* Properties of ecdsa-rdfc-2019 and ecdsa-jcs-2019, under SpecRdfcJcs.    *)
(***************************************************************************)
\* The datetimes among CreatedValues: the strings that are an XML Schema
\* dateTimeStamp.
ValidDatetime(created) ==
    created \in {"1970-01-01T00:00:00Z", "1970-01-01T00:00:01Z", "1969-12-31T23:59:59Z"}

RjCreated == rj.pc \in {"secured", "failed", "tampered", "verified"}
RjCryptosuite(suite) == IF suite = "rdfc" THEN SUITE_RDFC ELSE SUITE_JCS

\* Proof options of the right type and cryptosuite, with the issuer's
\* verification method of the curve, and with no created or a valid one.
RjValidOptions ==
    /\ rj.options.type = GENERAL_PROOF_TYPE
    /\ rj.options.cryptosuite = RjCryptosuite(rj.suite)
    /\ rj.options.verificationMethod =
         (IF rj.curve = P256 THEN "did:example:issuer#p256" ELSE "did:example:issuer#p384")
    /\ (rj.options.created = Undefined \/ ValidDatetime(rj.options.created))

\* C2: for both curves and both suites, createProof on proof options of type
\* DataIntegrityProof, the suite's cryptosuite and a verification method
\* holding both keys of the curve returns a proof, and verifyProof of the same
\* suite and curve on the document with that proof returns verified = true.
C2_RoundTrip ==
    (RjCreated /\ RjValidOptions) =>
      /\ rj.pc # "failed"
      /\ (rj.pc = "verified" /\ rj.how = "none" /\ rj.verifier = rj.suite)
           => (IsOk(rj.result) /\ rj.result.val.verified)

\* createProof raises on options that are valid and whose created is the epoch.
C2_EpochFails ==
    /\ rj.pc = "failed" /\ RjValidOptions
    /\ rj.options.created = "1970-01-01T00:00:00Z"
    /\ rj.proof.err = PROOF_GENERATION_ERROR

\* C8: the hash data is the digest of the canonical proof configuration and
\* then the digest of the transformed document, SHA-256 on P-256 and SHA-384
\* on P-384: 64 bytes on P-256 and 96 on P-384.
C8_HashOrder ==
    (RjCreated /\ IsOk(rj.hash)) =>
      LET algorithm == IF rj.curve = P256 THEN "SHA-256" ELSE "SHA-384"
          length == IF rj.curve = P256 THEN 32 ELSE 48
          transformed == IF rj.suite = "rdfc" THEN rdfc_normalize(rj.document)
                         ELSE jcs_canonize(rj.document)
          digested(i, text) ==
            oracle[i] = [kind |-> "digest", key |-> <<>>, alg |-> algorithm,
                         msg |-> TextEncode(text)]
      IN /\ Len(rj.hash.val) = 2 * length
         /\ \E i, j \in 1..Len(oracle) :
              /\ digested(i, rj.config.val)
              /\ digested(j, transformed)
              /\ SubSeq(rj.hash.val, 1, length) = OracleBytes(i, length)
              /\ SubSeq(rj.hash.val, length + 1, 2 * length) = OracleBytes(j, length)

\* A document is hashed on P-384, the two digests being different ones.
C8_Hashed ==
    /\ rj.pc = "secured" /\ rj.curve = P384 /\ IsOk(rj.hash)
    /\ Len(rj.hash.val) = 96
    /\ SubSeq(rj.hash.val, 1, 48) # SubSeq(rj.hash.val, 49, 96)

(***************************************************************************)
(* ecdsa-sd-2023 at work: the issuer secures a credential with a base      *)
(* proof, the holder derives a proof for the claims it reveals and hands   *)
(* the reveal document to a verifier; a proof that has verified may be     *)
(* changed and verified again.  MaxPointers bounds the pointers in a list. *)
(***************************************************************************)
MaxPointers == 2

PointerLists ==
    { SelectSeq(Pointers, LAMBDA pointer : pointer \in chosen) :
        chosen \in { c \in SUBSET { Pointers[i] : i \in 1..Len(Pointers) } :
                       Cardinality(c) <= MaxPointers } }

SdDocuments ==
    { [context |-> "https://www.w3.org/ns/credentials/v2", id |-> i,
       type |-> "VerifiableCredential", age |-> "30", degree |-> "BSc",
       name |-> "Alice"] : i \in {"urn:credential:1", Undefined} }

SdProofOptions ==
    { [type |-> o[1], cryptosuite |-> o[2], created |-> o[3],
       verificationMethod |-> o[4], proofPurpose |-> "assertionMethod"] :
      o \in { <<GENERAL_PROOF_TYPE, SUITE_SD, Undefined, "did:example:issuer#p256">>,
              <<GENERAL_PROOF_TYPE, SUITE_SD, "1970-01-01T00:00:01Z",
                "did:example:issuer#p384">>,
              <<GENERAL_PROOF_TYPE, SUITE_SD, "1970-01-01T00:00:00Z",
                "did:example:issuer#p256">>,
              <<GENERAL_PROOF_TYPE, SUITE_SD, "yesterday", "did:example:issuer#p256">>,
              <<"Ed25519Signature2020", SUITE_SD, Undefined, "did:example:issuer#p256">>,
              <<GENERAL_PROOF_TYPE, SUITE_RDFC, Undefined, "did:example:issuer#p256">>,
              <<GENERAL_PROOF_TYPE, SUITE_SD, Undefined, "did:example:issuer#public">> } }

\* The bytes getRandomValues returns, and the key pair generateRawKeypair makes.
RandomHmacKey == Fill(32, 5)
ScopedKeyId == CHOOSE k \in KeyIds : k \notin {1, 2, 4}

SdInit ==
    /\ \E c \in Curves : \E d \in SdDocuments : \E p \in SdProofOptions :
         \E mp \in PointerLists :
           sd = [pc |-> "start", curve |-> c, document |-> d, options |-> p,
                 mandatoryPointers |-> mp, selectivePointers |-> <<>>,
                 config |-> Err("unset"), proof |-> Err("unset"), secured |-> d,
                 reveal |-> d, how |-> "none", verifyCurve |-> c,
                 result |-> Err("unset"), calls |-> <<>>]
    /\ codec = Idle /\ rj = Idle /\ oracle = <<>> /\ kp = Idle

SdCreateProof ==
    /\ sd.pc = "start"
    /\ \E r \in { EcdsaSd2023_createProof(oracle, sd.document, sd.curve, sd.options,
                                          sd.mandatoryPointers, RandomHmacKey,
                                          ScopedKeyId) } :
         /\ sd' = [sd EXCEPT
                     !.pc = IF IsOk(r) THEN "secured" ELSE "failed",
                     !.config = configSd(sd.document, sd.options),
                     !.proof = [err |-> r.err, val |-> r.val],
                     !.secured = IF IsOk(r) THEN Assign(sd.document, "proof", r.val)
                                 ELSE sd.document]
         /\ oracle' = r.o
    /\ UNCHANGED <<kp, codec, rj>>

\* The type or the cryptosuite of the base proof is changed before the
\* holder derives from it.
SdMislabel ==
    /\ sd.pc = "secured" /\ sd.how = "none"
    /\ \/ sd' = [sd EXCEPT !.how = "type", !.secured.proof.type = "Ed25519Signature2020"]
       \/ sd' = [sd EXCEPT !.how = "cryptosuite", !.secured.proof.cryptosuite = SUITE_RDFC]
    /\ UNCHANGED <<kp, codec, rj, oracle>>

\* deriveProof, and the reveal document the holder selects for the proof;
\* with no pointer at all there is no document to reveal.
SdDeriveProof ==
    /\ sd.pc = "secured"
    /\ \E sp \in PointerLists :
         /\ sd.mandatoryPointers \o sp # <<>>
         /\ \E r \in { EcdsaSd2023_deriveProof(oracle, sd.secured, sd.curve, sp) } :
              /\ sd' = [sd EXCEPT
                          !.pc = IF IsOk(r) THEN "derived" ELSE "underived",
                          !.selectivePointers = sp,
                          !.proof = [err |-> r.err, val |-> r.val],
                          !.reveal =
                            IF IsOk(r)
                            THEN Assign(selectJsonLd(sd.mandatoryPointers \o sp, sd.secured),
                                        "proof", r.val)
                            ELSE sd.reveal]
              /\ oracle' = r.o
    /\ UNCHANGED <<kp, codec, rj>>

SdVerified == sd.pc = "verified" /\ IsOk(sd.result) /\ sd.result.val.verified

\* A claim or the type of the reveal document is changed.
SdTamperDocument ==
    /\ SdVerified /\ sd.how = "none"
    /\ \E f \in DOMAIN sd.reveal \cap {"age", "degree", "name", "type"} :
         sd' = [sd EXCEPT !.pc = "tampered", !.how = "document", !.reveal[f] = "Mallory"]
    /\ UNCHANGED <<kp, codec, rj, oracle>>

\* One character of the derived proof value is changed.
SdTamperProofValue ==
    /\ SdVerified /\ sd.how = "none"
    /\ \E str \in { sd.reveal.proof.proofValue } :
         \E i \in {1, 2, 5, 10, 100, 120, Len(str) - 1, Len(str)} :
           sd' = [sd EXCEPT !.pc = "tampered", !.how = "proofValue",
                            !.reveal.proof.proofValue[i] =
                               IF str[i] = 65 THEN 66 ELSE 65]
    /\ UNCHANGED <<kp, codec, rj, oracle>>

\* A property of the derived proof is changed.
SdTamperProof ==
    /\ SdVerified /\ sd.how = "none"
    /\ \/ sd' = [sd EXCEPT !.pc = "tampered", !.how = "type",
                           !.reveal.proof.type = "Ed25519Signature2020"]
       \/ sd' = [sd EXCEPT !.pc = "tampered", !.how = "cryptosuite",
                           !.reveal.proof.cryptosuite = SUITE_RDFC]
       \/ sd' = [sd EXCEPT !.pc = "tampered", !.how = "verificationMethod",
                           !.reveal.proof.verificationMethod = "did:example:other#p256"]
    /\ UNCHANGED <<kp, codec, rj, oracle>>

\* The derived proof is given one signature less or one more, and may name a
\* verification method that does not resolve.
SdForgeSignatures ==
    /\ SdVerified /\ sd.how = "none"
    /\ \E v \in { parseDerivedProofValue(sd.reveal.proof.proofValue).val } :
         \E signatures \in { Append(v.signatures, SampleSignature(1)) } \cup
                           { SubSeq(v.signatures, 1, Len(v.signatures) - 1) :
                               n \in { k \in {1} : v.signatures # <<>> } } :
           \E vm \in { sd.reveal.proof.verificationMethod, "did:example:unknown" } :
             sd' = [sd EXCEPT
                      !.pc = "tampered", !.how = "signatures",
                      !.reveal.proof.verificationMethod = vm,
                      !.reveal.proof.proofValue =
                         serializeDerivedProofValue(
                           [v EXCEPT !.signatures = signatures]).val]
    /\ UNCHANGED <<kp, codec, rj, oracle>>

SdVerifyProof ==
    /\ sd.pc \in {"derived", "tampered"}
    /\ \E c \in (IF sd.pc = "derived" THEN Curves ELSE {sd.verifyCurve}) :
         \E r \in { EcdsaSd2023_verifyProof(oracle, sd.reveal, c) } :
           /\ sd' = [sd EXCEPT
                       !.pc = IF sd.pc = "derived" THEN "verified" ELSE "reverified",
                       !.verifyCurve = c,
                       !.result = [err |-> r.err, val |-> r.val],
                       !.calls = r.calls]
           /\ oracle' = r.o
    /\ UNCHANGED <<kp, codec, rj>>

SdNext ==
    \/ SdCreateProof \/ SdMislabel \/ SdDeriveProof
    \/ SdTamperDocument \/ SdTamperProofValue \/ SdTamperProof \/ SdForgeSignatures
    \/ SdVerifyProof

SpecSd == SdInit /\ [][SdNext]_vars

SdTampered == sd.pc = "reverified" /\ sd.how \in {"proofValue", "document"}

\* C3, as stated: after a change of one byte of the proof value of a derived
\* proof that verified, or of a revealed N-Quad, verifyProof returns
\* verified = false.
C3_TamperReturnsFalse ==
    SdTampered => (IsOk(sd.result) /\ ~sd.result.val.verified)

\* C3, amended: after such a change verifyProof never returns verified = true;
\* it returns verified = false or raises.
C3_TamperNeverVerifies ==
    SdTampered => ~(IsOk(sd.result) /\ sd.result.val.verified)

\* A changed claim is answered with verified = false.
C3_TamperedRejected ==
    /\ SdTampered /\ sd.how = "document"
    /\ IsOk(sd.result) /\ ~sd.result.val.verified

\* The derived proof parses and its signatures are not as many as the
\* N-Quads of the reveal document at no position of mandatoryIndexes.
SdSignatureCountDiffers ==
    LET parsed == parseDerivedProofValue(sd.reveal.proof.proofValue)
        nQuads == NQuads(Delete(sd.reveal, "proof"), <<>>)
        mandatory == { i \in 0..(Len(nQuads) - 1) :
                         \E k \in 1..Len(parsed.val.mandatoryIndexes) :
                            parsed.val.mandatoryIndexes[k] = i }
    IN /\ IsOk(parsed)
       /\ Len(parsed.val.signatures) # Len(nQuads) - Cardinality(mandatory)

\* C4: verification of a derived proof whose number of signatures is not the
\* number of non-mandatory N-Quads raises PROOF_VERIFICATION_ERROR, before
\* the verification method is resolved and before a signature is verified.
C4_CountCheckedFirst ==
    (sd.pc \in {"verified", "reverified"} /\ SdSignatureCountDiffers) =>
      (sd.result.err = PROOF_VERIFICATION_ERROR /\ sd.calls = <<>>)

\* A proof with a signature too many, naming a verification method that does
\* not resolve, is rejected for its signatures.
C4_CountRejected ==
    /\ sd.pc = "reverified" /\ sd.how = "signatures"
    /\ sd.reveal.proof.verificationMethod = "did:example:unknown"
    /\ SdSignatureCountDiffers
    /\ sd.result.err = PROOF_VERIFICATION_ERROR

(***************************************************************************)
(* The three suites together.                                              *)
(***************************************************************************)
Init == RjInit \/ SdInit
Next == RjNext \/ SdNext
Spec == Init /\ [][Next]_vars

SdCreated == sd.pc \notin {"idle", "start"}

ResultShape(result, securedDocument) ==
    /\ (result.verifiedDocument # <<>>) = result.verified
    /\ result.verifiedDocument # <<>>
         => result.verifiedDocument = <<Delete(securedDocument, "proof")>>

\* C5: in every result of verifyProof, of any suite, verifiedDocument is there
\* if and only if verified is true, and is then the secured document without
\* its proof.
C5_DocumentIffVerified ==
    /\ (rj.pc = "verified" /\ IsOk(rj.result)) => ResultShape(rj.result.val, rj.secured)
    /\ (sd.pc \in {"verified", "reverified"} /\ IsOk(sd.result))
         => ResultShape(sd.result.val, sd.reveal)

\* verifyProof returns verified = false and no document.
C5_Unverified ==
    /\ rj.pc = "verified" /\ rj.verifier = "rdfc" /\ IsOk(rj.result)
    /\ ~rj.result.val.verified
    /\ rj.result.val.verifiedDocument = <<>>

Mislabelled(proof, cryptosuite) ==
    proof.type # GENERAL_PROOF_TYPE \/ proof.cryptosuite # cryptosuite

\* C6: createProof, verifyProof and deriveProof raise
\* PROOF_TRANSFORMATION_ERROR for a proof whose type is not DataIntegrityProof
\* or whose cryptosuite is not the suite's.
C6_RejectedOnEntry ==
    /\ (RjCreated /\ Mislabelled(rj.options, RjCryptosuite(rj.suite)))
         => rj.proof.err = PROOF_TRANSFORMATION_ERROR
    /\ (rj.pc = "verified" /\ Mislabelled(rj.secured.proof, RjCryptosuite(rj.verifier)))
         => rj.result.err = PROOF_TRANSFORMATION_ERROR
    /\ (sd.pc \in {"secured", "failed"} /\ Mislabelled(sd.options, SUITE_SD))
         => sd.proof.err = PROOF_TRANSFORMATION_ERROR
    /\ (sd.pc \in {"derived", "underived"} /\ Mislabelled(sd.secured.proof, SUITE_SD))
         => sd.proof.err = PROOF_TRANSFORMATION_ERROR
    /\ (sd.pc \in {"verified", "reverified"} /\ Mislabelled(sd.reveal.proof, SUITE_SD))
         => sd.result.err = PROOF_TRANSFORMATION_ERROR

\* EcdsaRdfc2019.createProof answers a wrong type with PROOF_GENERATION_ERROR,
\* and EcdsaSd2023.deriveProof derives from a proof of a wrong type.
C6_OtherError ==
    \/ /\ rj.pc = "failed" /\ rj.suite = "rdfc"
       /\ rj.options.type # GENERAL_PROOF_TYPE
       /\ rj.proof.err = PROOF_GENERATION_ERROR
    \/ /\ sd.pc = "derived" /\ sd.secured.proof.type # GENERAL_PROOF_TYPE
       /\ IsOk(sd.proof)

CreatedChecked(proof, config) ==
    /\ (proof.created # Undefined /\ ~ValidDatetime(proof.created))
         => config.err = PROOF_GENERATION_ERROR
    /\ (proof.created = Undefined \/ ValidDatetime(proof.created)) => IsOk(config)

\* C7: configRdfc, configJcs and configSd raise PROOF_GENERATION_ERROR when
\* created is there and is no valid datetime, and do not raise for created
\* when it is not there or is a valid datetime, whatever instant it names.
C7_CreatedChecked ==
    /\ (RjCreated /\ ~Mislabelled(rj.options, RjCryptosuite(rj.suite)))
         => CreatedChecked(rj.options, rj.config)
    /\ (SdCreated /\ ~Mislabelled(sd.options, SUITE_SD))
         => CreatedChecked(sd.options, sd.config)

\* The Configure step raises for created = 1970-01-01T00:00:00Z.
C7_EpochRejected ==
    \/ /\ RjCreated /\ ~Mislabelled(rj.options, RjCryptosuite(rj.suite))
       /\ rj.options.created = "1970-01-01T00:00:00Z"
       /\ rj.config.err = PROOF_GENERATION_ERROR
    \/ /\ SdCreated /\ ~Mislabelled(sd.options, SUITE_SD)
       /\ sd.options.created = "1970-01-01T00:00:00Z"
       /\ sd.config.err = PROOF_GENERATION_ERROR

(***************************************************************************)
(* key/ at work.  Key material is encoded as a multibase string and        *)
(* decoded again.                                                          *)
(***************************************************************************)
\* Key material: private scalars, points x || y with an even and with an odd
\* y, and byte arrays of other lengths.
KeyMaterials ==
    UNION { { KeyD(k), KeyX(k) \o KeyY(k), KeyX(k) \o NegateY(KeyY(k)) } : k \in KeyIds }
      \cup { Fill(33, 1), <<>> }

MaterialInit ==
    \E m \in KeyMaterials, f \in {"public", "private"}, c \in Curves :
       kp = [pc |-> "material", material |-> m, flag |-> f, curve |-> c,
             multibase |-> Err("unset"), res |-> Err("unset")]

MaterialToMultibase ==
    /\ kp.pc = "material"
    /\ kp' = [kp EXCEPT !.pc = "encoded",
                        !.multibase = materialToMultibase(kp.material, kp.flag, kp.curve)]
    /\ UNCHANGED <<codec, rj, sd, oracle>>

MultibaseToMaterial ==
    /\ kp.pc = "encoded" /\ IsOk(kp.multibase)
    /\ kp' = [kp EXCEPT !.pc = "decoded",
                        !.res = multibaseToMaterial(kp.multibase.val, kp.flag, kp.curve)]
    /\ UNCHANGED <<codec, rj, sd, oracle>>

(***************************************************************************)
(* An ECKeypair and its fingerprint.                                       *)
(***************************************************************************)
Controller == <<100, 105, 100, 58, 97>>                    \* "did:a"
OtherId == <<100, 105, 100, 58, 98, 35, 107>>              \* "did:b#k"
Hash == <<35>>                                             \* "#"

\* The keypair holding key k, or a part of it, as initialize() and import()
\* build it: both keys lie on the curve of the keypair.
KeypairOf(k, id, controller, withPublic, withPrivate) ==
    [curve |-> KeyCurve(k), id |-> id, controller |-> controller,
     publicKey |-> IF withPublic THEN PublicCryptoKey(KeyCurve(k), KeyX(k), KeyY(k))
                   ELSE NoKey,
     privateKey |-> IF withPrivate THEN PrivateCryptoKey(KeyCurve(k), KeyD(k))
                    ELSE NoKey]

\* The fingerprint of key k, by the definition of the multikey encoding.
FingerprintOf(k) ==
    base58btc_encode(MULTIBASE("public", KeyCurve(k))
                       \o <<IF KeyY(k)[Len(KeyY(k))] % 2 = 1 THEN 3 ELSE 2>> \o KeyX(k))

KeypairIds(k) ==
    {<<>>, Controller \o Hash \o FingerprintOf(k), Controller \o Hash \o <<107>>, OtherId}

Keypairs ==
    UNION { { KeypairOf(k, id, controller, withPublic, withPrivate) :
                id \in KeypairIds(k), controller \in {<<>>, Controller},
                withPublic \in BOOLEAN, withPrivate \in BOOLEAN } : k \in KeyIds }

KeypairInit ==
    \E keypair \in Keypairs :
       kp = [pc |-> "keypair", keypair |-> keypair, fingerprint |-> Err("unset"),
             candidate |-> <<>>, res |-> Err("unset")]

GenerateFingerprint ==
    /\ kp.pc = "keypair"
    /\ \E r \in {generateFingerprint(kp.keypair)} :
         kp' = [kp EXCEPT !.pc = "fingerprinted", !.fingerprint = r]
    /\ UNCHANGED <<codec, rj, sd, oracle>>

\* verifyFingerprint of the keypair's own fingerprint, of another key's and of
\* a string that is none.
VerifyFingerprint ==
    /\ kp.pc = "fingerprinted"
    /\ \E s \in (IF IsOk(kp.fingerprint) THEN {kp.fingerprint.val} ELSE {})
                  \cup {FingerprintOf(1), FingerprintOf(2), <<122>>} :
         \E r \in {verifyFingerprint(kp.keypair, s)} :
           kp' = [kp EXCEPT !.pc = "fingerprintVerified", !.candidate = s, !.res = r]
    /\ UNCHANGED <<codec, rj, sd, oracle>>

(***************************************************************************)
(* The keypair as a verification method: keypairToMultibase and            *)
(* keypairToJwk called directly, ECKeypair.export with its options.        *)
(***************************************************************************)
KeypairToMultibase ==
    /\ kp.pc = "keypair"
    /\ \E flag \in {"public", "private"} :
         \E r \in {keypairToMultibase(kp.keypair, flag)} :
           kp' = [pc |-> "documented", keypair |-> kp.keypair, flag |-> flag,
                  type |-> KEYPAIR_DOCUMENT_TYPE_MULTI, res |-> r]
    /\ UNCHANGED <<codec, rj, sd, oracle>>

KeypairToJwk ==
    /\ kp.pc = "keypair"
    /\ \E flag \in {"public", "private"} :
         \E r \in {keypairToJwk(oracle, kp.keypair, flag)} :
           /\ kp' = [pc |-> "documented", keypair |-> kp.keypair, flag |-> flag,
                     type |-> KEYPAIR_DOCUMENT_TYPE_JWK,
                     res |-> [err |-> r.err, val |-> r.val]]
           /\ oracle' = r.o
    /\ UNCHANGED <<codec, rj, sd>>

ExportOptions ==
    [flag : {"", "public", "private"},
     type : {"", KEYPAIR_DOCUMENT_TYPE_MULTI, KEYPAIR_DOCUMENT_TYPE_JWK, "Ed25519VerificationKey2020"}]

Export ==
    /\ kp.pc = "keypair"
    /\ \E options \in ExportOptions :
         \E r \in {ECKeypair_export(oracle, kp.keypair, options)} :
           /\ kp' = [pc |-> "exported", keypair |-> kp.keypair, options |-> options,
                     res |-> [err |-> r.err, val |-> r.val]]
           /\ oracle' = r.o
    /\ UNCHANGED <<codec, rj, sd>>

\* initialize() of a keypair, whatever it held before.
Initialize ==
    /\ kp.pc = "keypair"
    /\ \E k \in {j \in KeyIds : KeyCurve(j) = kp.keypair.curve} :
         \E r \in {ECKeypair_initialize(kp.keypair, k)} :
           kp' = [pc |-> "initialized", keypair |-> kp.keypair, res |-> r]
    /\ UNCHANGED <<codec, rj, sd, oracle>>

(***************************************************************************)
(* ECKeypair.import of a verification method.                              *)
(***************************************************************************)
\* The time of the import, in milliseconds since the epoch.
Now == 1000

\* Dates: none, before Now, at Now, after Now, and a string that is no date.
ImportDates ==
    {"", "1970-01-01T00:00:00Z", "1970-01-01T00:00:01Z", "1970-01-02", "tomorrow"}

\* The verification methods ECKeypair.export gives, with and without a
\* secret key, and one of a type of another suite.
ImportMethods ==
    { [id |-> Controller \o Hash \o <<107>>, type |-> type, controller |-> Controller,
       publicKeyMultibase |->
         IF type = KEYPAIR_DOCUMENT_TYPE_MULTI THEN FingerprintOf(k) ELSE <<>>,
       secretKeyMultibase |->
         IF type = KEYPAIR_DOCUMENT_TYPE_MULTI /\ k = 1
         THEN materialToMultibase(KeyD(k), "private", KeyCurve(k)).val ELSE <<>>,
       publicKeyJwk |->
         IF type = KEYPAIR_DOCUMENT_TYPE_JWK
         THEN keyToJwk(generateRawKeypair(k).publicKey, "public") ELSE NoJwk,
       secretKeyJwk |->
         IF type = KEYPAIR_DOCUMENT_TYPE_JWK /\ k = 1
         THEN keyToJwk(generateRawKeypair(k).privateKey, "private") ELSE NoJwk] :
        k \in {1, 2},
        type \in {KEYPAIR_DOCUMENT_TYPE_MULTI, KEYPAIR_DOCUMENT_TYPE_JWK,
                  "Ed25519VerificationKey2020"} }

ImportOptions ==
    [curve : {"", P384}, checkContext : BOOLEAN, checkExpired : BOOLEAN,
     checkRevoked : BOOLEAN]

ImportInit ==
    \E method \in ImportMethods, context \in {CID_V1, "https://example.org/v1"},
       expires \in ImportDates, revoked \in ImportDates :
       kp = [pc |-> "method",
             inputDocument |-> [context |-> context, expires |-> expires,
                                revoked |-> revoked, id |-> method.id,
                                type |-> method.type, controller |-> method.controller,
                                publicKeyMultibase |-> method.publicKeyMultibase,
                                secretKeyMultibase |-> method.secretKeyMultibase,
                                publicKeyJwk |-> method.publicKeyJwk,
                                secretKeyJwk |-> method.secretKeyJwk],
             options |-> [curve |-> "", checkContext |-> FALSE, checkExpired |-> FALSE,
                          checkRevoked |-> FALSE],
             res |-> Err("unset")]

Import ==
    /\ kp.pc = "method"
    /\ \E options \in ImportOptions :
         \E r \in {ECKeypair_importWith(kp.inputDocument, options, Now)} :
           kp' = [kp EXCEPT !.pc = "imported", !.options = options, !.res = r]
    /\ UNCHANGED <<codec, rj, sd, oracle>>

(***************************************************************************)
(* keyToMaterial of a key handle.  A conforming Web Crypto answers         *)
(* exportKey with the document exportKey describes; the other documents    *)
(* are answers of a runtime that encodes the key in another way or hands   *)
(* over a damaged buffer.                                                  *)
(***************************************************************************)
\* The prefix of a PKCS#8 document that leaves out the optional public key.
PrivateKeyOnlyPrefix(curve) ==
    IF curve = P256
    THEN
        <<48, 65, 2, 1, 0, 48, 19, 6, 7, 42, 134, 72, 206, 61, 2, 1, 6, 8,
          42, 134, 72, 206, 61, 3, 1, 7, 4, 39, 48, 37, 2, 1, 1, 4, 32>>
    ELSE
        <<48, 78, 2, 1, 0, 48, 16, 6, 7, 42, 134, 72, 206, 61, 2, 1, 6, 5,
          43, 129, 4, 0, 34, 4, 55, 48, 53, 2, 1, 1, 4, 48>>

DER_COMPRESSED_public(curve) ==
    IF curve = P256 THEN PUBLIC_KEY_COMPRESSED_256 ELSE PUBLIC_KEY_COMPRESSED_384

Exports == {"webcrypto", "compact", "trailing", "truncated"}

ExportedAs(how, format, key) ==
    LET der == exportKey(format, key)
    IN IF ~IsOk(der) THEN der
       ELSE CASE how = "webcrypto" -> der
              [] how = "trailing" -> Ok(der.val \o <<0>>)
              [] how = "truncated" -> Ok(SubSeq(der.val, 1, Len(der.val) - 1))
              [] how = "compact" ->
                   IF key.type = "public"
                   THEN Ok(DER_COMPRESSED_public(key.curve)
                             \o <<2 + (key.y[Len(key.y)] % 2)>> \o key.x)
                   ELSE Ok(PrivateKeyOnlyPrefix(key.curve) \o key.d)

Handles ==
    UNION { { PublicCryptoKey(KeyCurve(k), KeyX(k), KeyY(k)),
              PrivateCryptoKey(KeyCurve(k), KeyD(k)) } : k \in {1, 2} }

HandleInit ==
    \E key \in Handles, f \in {"public", "private"}, c \in Curves, how \in Exports :
       kp = [pc |-> "handle", key |-> key, flag |-> f, curve |-> c,
             der |-> ExportedAs(how, KEY_FORMAT(f), key), res |-> Err("unset")]

KeyToMaterial ==
    /\ kp.pc = "handle"
    /\ \E r \in {keyToMaterialOf(kp.key, kp.der, kp.flag, kp.curve)} :
         kp' = [kp EXCEPT !.pc = "materialized", !.res = r]
    /\ UNCHANGED <<codec, rj, sd, oracle>>

\* The JWKs given to jwkToKey: what keyToJwk makes of a key, public or
\* private, with d kept or taken out, key_ops kept or taken out, and kty or
\* crv changed.
JwkEdits ==
    { [d |-> d, key_ops |-> ops, kty |-> kty, crv |-> crv] :
        d \in BOOLEAN, ops \in BOOLEAN, kty \in {"", "RSA"},
        crv \in {"", "P-521", "none"} }

Jwks ==
    UNION { { [keyToJwk(key, f) EXCEPT
                 !.d = IF e.d THEN @ ELSE <<>>,
                 !.key_ops = IF e.key_ops THEN @ ELSE <<>>,
                 !.kty = IF e.kty = "" THEN @ ELSE e.kty,
                 !.crv = IF e.crv = "" THEN @
                         ELSE IF e.crv = "none" THEN "" ELSE e.crv] :
              e \in JwkEdits, f \in {"public", "private"} } :
            key \in Handles }

JwkInit ==
    \E jwk \in Jwks, f \in {"public", "private"} :
       kp = [pc |-> "jwk", jwk |-> jwk, flag |-> f, res |-> Err("unset")]

JwkToKey ==
    /\ kp.pc = "jwk"
    /\ \E r \in {jwkToKey(kp.jwk, kp.flag)} :
         kp' = [kp EXCEPT !.pc = "jwkImported", !.res = r]
    /\ UNCHANGED <<codec, rj, sd, oracle>>

KeyInit ==
    /\ (MaterialInit \/ KeypairInit \/ HandleInit \/ ImportInit \/ JwkInit)
    /\ codec = Idle /\ rj = Idle /\ sd = Idle /\ oracle = <<>>

KeyNext ==
    \/ MaterialToMultibase \/ MultibaseToMaterial
    \/ GenerateFingerprint \/ VerifyFingerprint
    \/ KeyToMaterial
    \/ KeypairToMultibase \/ KeypairToJwk \/ Export
    \/ Initialize \/ Import
    \/ JwkToKey

SpecKey == KeyInit /\ [][KeyNext]_vars

(***************************************************************************)
(* Properties of key/, under SpecKey.                                      *)
(***************************************************************************)
\* C12, as stated: for both curves and both flags, every key material m that
\* materialToMultibase accepts comes back from multibaseToMaterial:
\* multibaseToMaterial(materialToMultibase(m, f, c), f, c) = m.
C12_MaterialRoundTrip ==
    kp.pc = "decoded" => (IsOk(kp.res) /\ kp.res.val = kp.material)

\* The compressed point of the material x || y: 0x02 for an even y and 0x03
\* for an odd one, then x.
CompressedPoint(material) ==
    <<IF material[Len(material)] % 2 = 0 THEN 2 ELSE 3>>
      \o SubSeq(material, 1, Len(material) \div 2)

\* C12, amended: a private key material comes back unchanged; a public one,
\* x || y, comes back as its compressed point.
C12_PrivateSamePublicCompressed ==
    kp.pc = "decoded" =>
      /\ IsOk(kp.res)
      /\ kp.res.val = (IF kp.flag = "private" THEN kp.material
                       ELSE CompressedPoint(kp.material))

\* A P-384 point with an odd y, 96 bytes, comes back as 49 bytes.
C12_PublicCompressed ==
    /\ kp.pc = "decoded" /\ kp.flag = "public" /\ kp.curve = P384
    /\ Len(kp.material) = 96 /\ kp.material[96] % 2 = 1
    /\ IsOk(kp.res) /\ Len(kp.res.val) = 49 /\ kp.res.val[1] = 3

\* The fingerprint the claim describes: 'z', then base58btc of the 2-byte
\* multicodec prefix of the curve, 0x03 for an odd last byte of y and 0x02
\* otherwise, and x.
ExpectedFingerprint(keypair) ==
    base58btc_encode(
      (IF keypair.curve = P256 THEN <<128, 36>> ELSE <<129, 36>>)
        \o <<IF keypair.publicKey.y[Len(keypair.publicKey.y)] % 2 = 1 THEN 3 ELSE 2>>
        \o keypair.publicKey.x)

\* C13: with a public key, generateFingerprint returns the multibase string
\* of the multicodec-prefixed compressed point, verifyFingerprint(s) is true
\* exactly when s is that string (so it is true of generateFingerprint()'s
\* result, which is a second call giving the same string); with no public
\* key generateFingerprint raises INVALID_KEYPAIR_CONTENT.
C13_Fingerprint ==
    kp.pc \in {"fingerprinted", "fingerprintVerified"} =>
      IF kp.keypair.publicKey = NoKey
      THEN kp.fingerprint = Err("INVALID_KEYPAIR_CONTENT")
      ELSE /\ kp.fingerprint = Ok(ExpectedFingerprint(kp.keypair))
           /\ kp.fingerprint.val[1] = 122
           /\ kp.pc = "fingerprintVerified" =>
                /\ kp.res = Ok(kp.candidate = ExpectedFingerprint(kp.keypair))
                /\ kp.candidate = kp.fingerprint.val => kp.res = Ok(TRUE)

\* A P-384 keypair has verified its own fingerprint and refused another.
C13_OwnFingerprintVerified ==
    /\ kp.pc = "fingerprintVerified" /\ kp.keypair.curve = P384
    /\ kp.candidate = kp.fingerprint.val /\ kp.res = Ok(TRUE)

\* The document begins with the canonical uncompressed prefix of (curve, flag).
BeginsWithPrefix(der, flag, curve) ==
    /\ Len(der) >= Len(DER_UNCOMPRESSED(flag, curve))
    /\ SubSeq(der, 1, Len(DER_UNCOMPRESSED(flag, curve))) = DER_UNCOMPRESSED(flag, curve)

UncompressedLen(flag, curve) ==
    IF curve = P256 THEN (IF flag = "private" THEN 32 ELSE 64)
    ELSE (IF flag = "private" THEN 48 ELSE 96)

\* C14: keyToMaterial returns exactly uncompressedLen(flag, curve) bytes, those
\* that follow the canonical DER prefix, or raises: ENCODING_ERROR when the
\* exported document does not begin with the canonical uncompressed prefix of
\* (curve, flag), KEYPAIR_EXPORT_ERROR when it does and its length is not
\* prefix + publicLen + (privateLen + 6 for a private key).
C14_MaterialOrError ==
    (kp.pc = "materialized" /\ IsOk(kp.der)) =>
      LET prefixLength == Len(DER_UNCOMPRESSED(kp.flag, kp.curve))
          fullLength == prefixLength + UncompressedLen("public", kp.curve)
                          + (IF kp.flag = "private"
                             THEN UncompressedLen("private", kp.curve) + 6 ELSE 0)
      IN IF ~BeginsWithPrefix(kp.der.val, kp.flag, kp.curve)
         THEN kp.res = Err(ENCODING_ERROR)
         ELSE IF Len(kp.der.val) # fullLength
         THEN kp.res = Err("KEYPAIR_EXPORT_ERROR")
         ELSE /\ IsOk(kp.res)
              /\ Len(kp.res.val) = UncompressedLen(kp.flag, kp.curve)
              /\ kp.res.val = SubSeq(kp.der.val, prefixLength + 1,
                                     prefixLength + UncompressedLen(kp.flag, kp.curve))

\* A PKCS#8 document with the canonical prefix and one byte too many was
\* refused with KEYPAIR_EXPORT_ERROR.
C14_LengthRefused ==
    /\ kp.pc = "materialized" /\ kp.flag = "private" /\ IsOk(kp.der)
    /\ BeginsWithPrefix(kp.der.val, kp.flag, kp.curve)
    /\ Len(kp.der.val) = Len(DER_UNCOMPRESSED(kp.flag, kp.curve)) + 3 * CoordLength(kp.curve) + 7
    /\ kp.res = Err("KEYPAIR_EXPORT_ERROR")

\* What a document emits: its secret key, its public key.
EmitsSecret(document) ==
    IF document.type = KEYPAIR_DOCUMENT_TYPE_MULTI
    THEN document.secretKeyMultibase # <<>> ELSE document.secretKeyJwk # NoJwk
EmitsPublic(document) ==
    IF document.type = KEYPAIR_DOCUMENT_TYPE_MULTI
    THEN document.publicKeyMultibase # <<>> ELSE document.publicKeyJwk # NoJwk

C16_IdBeginsWithController ==
    kp.pc = "exported" =>
      /\ IsOk(kp.res) => String_startsWith(kp.res.val.id, kp.res.val.controller)
      /\ (kp.keypair.id = <<>> \/ kp.keypair.controller = <<>>
            \/ ~String_startsWith(kp.keypair.id, kp.keypair.controller)) => ~IsOk(kp.res)
      /\ (IsOk(kp.res) /\ kp.res.val.type = KEYPAIR_DOCUMENT_TYPE_JWK
            /\ kp.keypair.publicKey # NoKey) =>
           /\ kp.res.val.publicKeyJwk = keyToJwk(kp.keypair.publicKey, "public")
           /\ \E i \in 1..Len(oracle) :
                /\ oracle[i] = [kind |-> "digest", key |-> <<>>, alg |-> "SHA-256",
                                msg |-> TextEncode(JSON_stringify(kp.res.val.publicKeyJwk))]
                /\ kp.res.val.id =
                     kp.keypair.controller \o <<35>>
                       \o base64url_encode(OracleBytes(i, 32))

\* A JsonWebKey was exported under an id other than the keypair's own.
C16_JwkIdFromThumbprint ==
    /\ kp.pc = "exported" /\ IsOk(kp.res) /\ kp.res.val.type = KEYPAIR_DOCUMENT_TYPE_JWK
    /\ kp.res.val.id # kp.keypair.id
    /\ String_startsWith(kp.res.val.id, kp.keypair.controller)

\* What initialize() does to the id: it sets an absent id of a keypair with
\* a controller to <controller>#<fingerprint>, keeps an id that is present,
\* and leaves the id absent without a controller.
InitializeSetsId ==
    kp.pc = "initialized" =>
      /\ IsOk(kp.res)
      /\ kp.res.val.id =
           (IF kp.keypair.id # <<>> THEN kp.keypair.id
            ELSE IF kp.keypair.controller = <<>> THEN <<>>
            ELSE kp.keypair.controller \o <<35>> \o ExpectedFingerprint(kp.res.val))

\* C17, as stated: an absent id of a keypair with a controller is set to
\* <controller>#<fingerprint> by initialize() and by export(); initialize()
\* never overwrites an id and leaves it absent without a controller.
C17_IdSetByInitializeAndExport ==
    /\ InitializeSetsId
    /\ (kp.pc = "exported" /\ kp.keypair.id = <<>> /\ kp.keypair.controller # <<>>
          /\ kp.keypair.publicKey # NoKey /\ kp.options.flag # "private") =>
         /\ IsOk(kp.res)
         /\ kp.res.val.id = kp.keypair.controller \o <<35>> \o ExpectedFingerprint(kp.keypair)

\* export() of a keypair with a controller, a public key and no id gave no
\* verification method.
C17_ExportRefusesAbsentId ==
    /\ kp.pc = "exported" /\ kp.keypair.id = <<>> /\ kp.keypair.controller # <<>>
    /\ kp.keypair.publicKey # NoKey /\ kp.options.flag # "private"
    /\ kp.res = Err("KEYPAIR_EXPORT_ERROR")

\* The date of the document is in the past at the time of the import.
InPast(date) == date # "" /\ ~DateParse(date).nan /\ DateParse(date).ms < Now

ExpiryFails ==
    \/ kp.options.checkExpired /\ InPast(kp.inputDocument.expires)
    \/ kp.options.checkRevoked /\ InPast(kp.inputDocument.revoked)

\* With no check enabled import does what the conversion of the keys does,
\* and without a curve the keypair is on P-256.
UncheckedImport ==
    kp.pc = "imported" =>
      /\ (~kp.options.checkContext /\ ~kp.options.checkExpired /\ ~kp.options.checkRevoked)
           => /\ kp.res.err # "KEYPAIR_EXPIRED_ERROR"
              /\ kp.res.err =
                   (CASE kp.inputDocument.type = KEYPAIR_DOCUMENT_TYPE_MULTI ->
                           multibaseToKeypair(kp.inputDocument,
                             IF kp.options.curve = "" THEN P256 ELSE kp.options.curve).err
                      [] kp.inputDocument.type = KEYPAIR_DOCUMENT_TYPE_JWK ->
                           jwkToKeypair(kp.inputDocument,
                             IF kp.options.curve = "" THEN P256 ELSE kp.options.curve).err
                      [] OTHER -> "KEYPAIR_IMPORT_ERROR")
      /\ (kp.options.curve = "" /\ IsOk(kp.res)) => kp.res.val.curve = P256

\* C18, as stated: import raises KEYPAIR_EXPIRED_ERROR exactly when
\* checkExpired is enabled and expires is in the past or checkRevoked is
\* enabled and revoked is in the past; with no check enabled it raises no
\* context, expiry or revocation failure; the curve defaults to P-256.
C18_ExpiredExactly ==
    /\ kp.pc = "imported" => (kp.res.err = "KEYPAIR_EXPIRED_ERROR" <=> ExpiryFails)
    /\ UncheckedImport

\* C18, amended: the same, unless checkContext is enabled and the context of
\* the document is not valid, which raises INVALID_KEYPAIR_CONTENT before the
\* dates are looked at.
C18_ExpiredUnlessContextFails ==
    /\ kp.pc = "imported" =>
         IF kp.options.checkContext /\ kp.inputDocument.context # CID_V1
         THEN kp.res = Err("INVALID_KEYPAIR_CONTENT")
         ELSE (kp.res.err = "KEYPAIR_EXPIRED_ERROR" <=> ExpiryFails)
    /\ UncheckedImport

\* A Multikey revoked in the past, with a later expires date, was refused
\* with only checkRevoked enabled.
C18_RevokedRefused ==
    /\ kp.pc = "imported" /\ kp.options.checkRevoked /\ ~kp.options.checkExpired
    /\ ~kp.options.checkContext
    /\ kp.inputDocument.revoked = "1970-01-01T00:00:00Z"
    /\ kp.inputDocument.expires = "1970-01-02"
    /\ kp.res = Err("KEYPAIR_EXPIRED_ERROR")

(***************************************************************************)
(* The proof-scoped key pair of ecdsa-sd-2023, under SpecSd.                *)
(***************************************************************************)
\* The signature is one made with the digest `algorithm` by a key of `curve`.
SignedWith(signature, algorithm, curve, ofText) ==
    \E j \in 1..Len(oracle) :
      /\ oracle[j].kind = "sig"
      /\ signature = OracleBytes(j, 2 * CoordLength(curve))
      /\ oracle[j].alg = algorithm
      /\ Len(oracle[j].key) = 2 * CoordLength(curve)
      /\ (oracle[j].msg.text # <<>>) = ofText

\* C20: on either issuer curve the base proof carries the proof-scoped public
\* key as 0x80 0x24 and a compressed P-256 point, 35 bytes, every N-Quad
\* signature is one of the proof-scoped P-256 key with SHA-256, and only the
\* base signature is one of the issuer's curve with its digest; the verifier
\* accepts the signatures of the derived proof as P-256/SHA-256 signatures.
C20_ScopedKeyOnP256 ==
    /\ (sd.pc = "secured" /\ sd.how = "none") =>
         LET value == parseBaseProofValue(sd.secured.proof.proofValue).val
         IN /\ Len(value.publicKey) = 35
            /\ value.publicKey =
                 <<128, 36>> \o CompressedPoint(KeyX(ScopedKeyId) \o KeyY(ScopedKeyId))
            /\ KeyCurve(ScopedKeyId) = P256
            /\ \A i \in 1..Len(value.signatures) :
                 /\ SignedWith(value.signatures[i], "SHA-256", P256, TRUE)
                 /\ \E j \in 1..Len(oracle) :
                      /\ value.signatures[i] = OracleBytes(j, 64)
                      /\ oracle[j].key = KeyX(ScopedKeyId) \o KeyY(ScopedKeyId)
            /\ SignedWith(value.baseSignature,
                          IF sd.curve = P256 THEN "SHA-256" ELSE "SHA-384", sd.curve, FALSE)
    /\ (sd.pc = "verified" /\ sd.how = "none" /\ sd.verifyCurve = sd.curve) =>
         /\ IsOk(sd.result) /\ sd.result.val.verified
         /\ \A i \in 1..Len(parseDerivedProofValue(sd.reveal.proof.proofValue).val.signatures) :
              SignedWith(parseDerivedProofValue(sd.reveal.proof.proofValue).val.signatures[i],
                         "SHA-256", P256, TRUE)

\* A proof of a P-384 issuer with a P-256 signature of an N-Quad has verified.
C20_P384Verified ==
    /\ sd.pc = "verified" /\ sd.how = "none" /\ sd.curve = P384 /\ sd.verifyCurve = P384
    /\ IsOk(sd.result) /\ sd.result.val.verified
    /\ Len(parseDerivedProofValue(sd.reveal.proof.proofValue).val.baseSignature) = 96
    /\ parseDerivedProofValue(sd.reveal.proof.proofValue).val.signatures # <<>>

(***************************************************************************)
(* serializeSd, the concurrent signing of the N-Quads: the callback of     *)
(* map issues one crypto.subtle.sign per N-Quad of nonMandatory.values(),  *)
(* in the order of the map; the operations complete one at a time in any   *)
(* order, each filling in the element of its own N-Quad; await Promise.all *)
(* goes on once every element is filled in.  An element not yet filled in  *)
(* is the empty sequence.  verifySd runs its checks of the signatures the   *)
(* same way, after the check of the base signature has returned; the       *)
(* outcome of that check is one or the other, and a signature may have     *)
(* been changed or moved on the way to the verifier.                       *)
(***************************************************************************)
SignProofOptions ==
    CHOOSE p \in SdProofOptions :
      /\ p.type = GENERAL_PROOF_TYPE /\ p.cryptosuite = SUITE_SD
      /\ p.created = Undefined /\ p.verificationMethod = "did:example:issuer#p256"

SignInit ==
    /\ \E c \in Curves : \E d \in SdDocuments : \E mp \in PointerLists :
         \E t \in { transformSd(<<>>, d, c, SignProofOptions, mp, RandomHmacKey) } :
           /\ sd = [pc |-> "issued", curve |-> c,
                    nonMandatory |-> t.val.nonMandatory,
                    values |-> [i \in 1..Len(t.val.nonMandatory) |-> <<>>],
                    completed |-> <<>>,
                    signatures |-> <<>>,
                    verificationCheck |-> FALSE,
                    verificationChecks |-> <<>>,
                    verified |-> FALSE]
           /\ oracle = t.o
    /\ codec = Idle /\ rj = Idle /\ kp = Idle

\* A faulty Promise.all: a result goes to the first element not filled in,
\* so the results stand in the order of completion.
PromiseAll_resolveElement_completionOrder(values, index, value) ==
    LET first == CHOOSE i \in 1..Len(values) :
                   values[i] = <<>> /\ \A j \in 1..(i - 1) : values[j] # <<>>
    IN [values EXCEPT ![first] = value]

\* Promise.all: the result of the index-th promise is the index-th value.
PromiseAll_resolveElement(values, index, value) ==
    [values EXCEPT ![index] = value]

\* One of the sign operations in flight completes.
SignComplete ==
    /\ sd.pc = "issued"
    /\ \E index \in 1..Len(sd.values) :
         /\ sd.values[index] = <<>>
         /\ \E signature \in
              { subtle_sign(oracle, curveToDigestAlgorithm(P256).val,
                            PrivateCryptoKey(P256, KeyD(ScopedKeyId)),
                            TextEncode(<<sd.nonMandatory[index][2]>>)) } :
              /\ sd' = [sd EXCEPT
                          !.values = PromiseAll_resolveElement(sd.values, index,
                                                               signature.val),
                          !.completed = Append(sd.completed, index)]
              /\ oracle' = signature.o
    /\ UNCHANGED <<kp, codec, rj>>

\* Every promise is fulfilled: the await returns the values.
SignAwait ==
    /\ sd.pc = "issued"
    /\ \A index \in 1..Len(sd.values) : sd.values[index] # <<>>
    /\ sd' = [sd EXCEPT !.pc = "signed", !.signatures = sd.values]
    /\ UNCHANGED <<kp, codec, rj, oracle>>

\* A signature is replaced by other bytes, or by the one before it.
SignForge ==
    /\ sd.pc = "signed"
    /\ \E index \in 1..Len(sd.signatures) :
         \E signature \in {Fill(64, 0)} \cup
                          {sd.signatures[i] : i \in {index - 1} \cap {1}} :
           sd' = [sd EXCEPT !.pc = "forged", !.signatures[index] = signature]
    /\ UNCHANGED <<kp, codec, rj, oracle>>

\* verifySd: the check of the base signature has returned, with one outcome
\* or the other, and one crypto.subtle.verify per signature is in flight.
VerifyIssue ==
    /\ sd.pc \in {"signed", "forged"}
    /\ \E verificationCheck \in BOOLEAN :
         sd' = [sd EXCEPT !.pc = "verifying",
                          !.verificationCheck = verificationCheck,
                          !.values = [i \in 1..Len(sd.signatures) |-> <<>>],
                          !.completed = <<>>]
    /\ UNCHANGED <<kp, codec, rj, oracle>>

\* One of the checks in flight completes; its outcome is a one-element
\* sequence, to tell it from an element not filled in.
VerifyComplete ==
    /\ sd.pc = "verifying"
    /\ \E index \in 1..Len(sd.values) :
         /\ sd.values[index] = <<>>
         /\ sd' = [sd EXCEPT
                     !.values = PromiseAll_resolveElement(sd.values, index,
                       <<subtle_verify(oracle, curveToDigestAlgorithm(P256).val,
                                       PublicCryptoKey(P256, KeyX(ScopedKeyId),
                                                       KeyY(ScopedKeyId)),
                                       sd.signatures[index],
                                       TextEncode(<<sd.nonMandatory[index][2]>>))>>),
                     !.completed = Append(sd.completed, index)]
    /\ UNCHANGED <<kp, codec, rj, oracle>>

\* Every check has completed: the await returns and verified is made up.
VerifyAwait ==
    /\ sd.pc = "verifying"
    /\ \A index \in 1..Len(sd.values) : sd.values[index] # <<>>
    /\ \E verificationChecks \in {[index \in 1..Len(sd.values) |-> sd.values[index][1]]} :
         sd' = [sd EXCEPT !.pc = "checked",
                          !.verificationChecks = verificationChecks,
                          !.verified = Verified(sd.verificationCheck, verificationChecks)]
    /\ UNCHANGED <<kp, codec, rj, oracle>>

SignNext ==
    \/ SignComplete \/ SignAwait \/ SignForge
    \/ VerifyIssue \/ VerifyComplete \/ VerifyAwait

SpecSign == SignInit /\ [][SignNext]_vars

\* C21: whatever the order in which the sign operations complete, signatures
\* has one signature for each N-Quad of nonMandatory, the i-th being the
\* signature of the proof-scoped key over the i-th N-Quad, and the N-Quads
\* stand in ascending order of their absolute indexes.
C21_SignaturesInNQuadOrder ==
    sd.pc = "signed" =>
      /\ Len(sd.signatures) = Len(sd.nonMandatory)
      /\ \A i \in 1..Len(sd.signatures) :
           subtle_verify(oracle, "SHA-256",
                         PublicCryptoKey(P256, KeyX(ScopedKeyId), KeyY(ScopedKeyId)),
                         sd.signatures[i], TextEncode(<<sd.nonMandatory[i][2]>>))
      /\ \A i \in 1..(Len(sd.nonMandatory) - 1) :
           sd.nonMandatory[i][1] < sd.nonMandatory[i + 1][1]

\* Three N-Quads or more have been signed, the last of them first and the
\* first of them last.
C21_CompletedInReverse ==
    /\ sd.pc = "signed" /\ Len(sd.signatures) >= 3
    /\ sd.completed[1] = Len(sd.signatures)
    /\ sd.completed[Len(sd.completed)] = 1

(***************************************************************************)
(* createDisclosureData, under SpecSd: what the derived proof holds,       *)
(* against the groups of the base document the holder derived it from.     *)
(***************************************************************************)
\* A derived proof has been made from a base proof as issued.
Disclosed == sd.pc = "derived" /\ sd.how = "none" /\ IsOk(sd.proof)

BaseProofValue == parseBaseProofValue(sd.secured.proof.proofValue).val
DerivedProofValue == parseDerivedProofValue(sd.proof.val.proofValue).val

\* The groups createDisclosureData has worked with.
DisclosureGroups ==
    canonicalizeAndGroup(oracle, Delete(sd.secured, "proof"),
                         curveToDigestAlgorithm(sd.curve).val, BaseProofValue.hmacKey,
                         [mandatory |-> sd.mandatoryPointers,
                          selective |-> sd.selectivePointers,
                          combined |-> sd.mandatoryPointers \o sd.selectivePointers]
                        ).val.groups

KeySequence(map) == [i \in 1..Len(map) |-> map[i][1]]

\* C22: mandatoryIndexes holds the 0-based positions, in the ascending keys
\* of combined.matching, of exactly the keys that mandatory.matching has
\* too; it is strictly increasing, each element is below the size of
\* combined.matching, and it is as long as the two maps have keys in common.
C22_MandatoryIndexesRelative ==
    Disclosed =>
      LET combinedKeys == KeySequence(DisclosureGroups.combined.matching)
          mandatoryKeys == Keys(DisclosureGroups.mandatory.matching)
          mandatoryIndexes == DerivedProofValue.mandatoryIndexes
      IN /\ \A i \in 1..(Len(combinedKeys) - 1) : combinedKeys[i] < combinedKeys[i + 1]
         /\ \A relativeIndex \in 0..(Len(combinedKeys) - 1) :
              (\E i \in 1..Len(mandatoryIndexes) : mandatoryIndexes[i] = relativeIndex)
                <=> combinedKeys[relativeIndex + 1] \in mandatoryKeys
         /\ \A i \in 1..Len(mandatoryIndexes) :
              /\ mandatoryIndexes[i] \in 0..(Len(combinedKeys) - 1)
              /\ i > 1 => mandatoryIndexes[i - 1] < mandatoryIndexes[i]
         /\ Len(mandatoryIndexes) =
              Cardinality(mandatoryKeys \cap Keys(DisclosureGroups.combined.matching))

\* A mandatory statement stands behind a selective one in the reveal
\* document: its position differs from its absolute index and from its rank
\* among the mandatory statements.
C22_MandatoryBehindSelective ==
    /\ Disclosed
    /\ DerivedProofValue.mandatoryIndexes # <<>>
    /\ DerivedProofValue.mandatoryIndexes[1] > 0
    /\ KeySequence(DisclosureGroups.combined.matching)
         [DerivedProofValue.mandatoryIndexes[1] + 1] > DerivedProofValue.mandatoryIndexes[1]

\* The absolute indexes the signatures of the base proof belong to, in
\* their order: those that are no key of mandatory.matching.
SignedIndexes ==
    KeySequence(DisclosureGroups.mandatory.nonMatching)

\* C23: with the k-th signature of the base proof belonging to the k-th
\* absolute index that is no key of mandatory.matching, the derived proof
\* keeps, in their order, exactly the signatures whose index is a key of
\* selective.matching; a statement that both the mandatory and the selective
\* group match has no signature in it.
C23_SelectiveSignaturesKept ==
    Disclosed =>
      LET signatures == BaseProofValue.signatures
          selectiveKeys == Keys(DisclosureGroups.selective.matching)
          mandatoryKeys == Keys(DisclosureGroups.mandatory.matching)
          kept == SelectSeq([k \in 1..Len(signatures) |-> k],
                            LAMBDA k : SignedIndexes[k] \in selectiveKeys)
      IN /\ Len(signatures) = Len(SignedIndexes)
         /\ DerivedProofValue.signatures = [i \in 1..Len(kept) |-> signatures[kept[i]]]
         /\ Len(DerivedProofValue.signatures) = Cardinality(selectiveKeys \ mandatoryKeys)
         /\ \A i \in 1..Len(DerivedProofValue.signatures) :
              \A index \in mandatoryKeys \cap selectiveKeys :
                ~subtle_verify(oracle, "SHA-256",
                               PublicCryptoKey(P256, KeyX(ScopedKeyId), KeyY(ScopedKeyId)),
                               DerivedProofValue.signatures[i],
                               TextEncode(<<DisclosureGroups.combined.matching[
                                   CHOOSE j \in 1..Len(DisclosureGroups.combined.matching) :
                                     DisclosureGroups.combined.matching[j][1] = index][2]>>))

\* The first signature of the base proof is dropped and a later one kept,
\* behind a mandatory statement, and a statement is in both groups.
C23_KeptBehindMandatory ==
    /\ Disclosed
    /\ DerivedProofValue.signatures # <<>>
    /\ Len(DerivedProofValue.signatures) < Len(BaseProofValue.signatures)
    /\ \A i \in 1..Len(DerivedProofValue.signatures) :
         DerivedProofValue.signatures[i] # BaseProofValue.signatures[1]
    /\ SignedIndexes[1] > 0
    /\ Keys(DisclosureGroups.mandatory.matching)
         \cap Keys(DisclosureGroups.selective.matching) # {}

\* What the verifier makes of the reveal document and its derived proof.
VerifyData ==
    createVerifyData(oracle, Delete(sd.reveal, "proof"), sd.reveal.proof, sd.curve).val

\* C24: the derived proof of an issued base proof has as many signatures as
\* combined.matching has keys that mandatoryIndexes does not count, so the
\* verifier, which sorts the N-Quads of the reveal document by position into
\* mandatory and non-mandatory ones, finds one signature for each
\* non-mandatory N-Quad and goes on past its count check, and the i-th
\* signature is the one made over the i-th non-mandatory N-Quad.
C24_SignaturePerNonMandatory ==
    /\ Disclosed =>
         /\ Len(DerivedProofValue.signatures) =
              Len(DisclosureGroups.combined.matching)
                - Len(DerivedProofValue.mandatoryIndexes)
         /\ Len(VerifyData.signatures) = Len(VerifyData.nonMandatory)
         /\ \A i \in 1..Len(VerifyData.signatures) :
              subtle_verify(oracle, "SHA-256",
                            PublicCryptoKey(P256, KeyX(ScopedKeyId), KeyY(ScopedKeyId)),
                            VerifyData.signatures[i],
                            TextEncode(<<VerifyData.nonMandatory[i]>>))
    /\ (sd.pc = "verified" /\ sd.how = "none") =>
         /\ sd.calls # <<>>
         /\ sd.calls[1] = "retrieveVerificationMethod"

\* A proof with two mandatory statements, the second behind the first, and a
\* signature for a statement behind them has passed the count check.
C24_CountCheckPassed ==
    /\ sd.pc = "verified" /\ sd.how = "none" /\ sd.calls # <<>>
    /\ Len(parseDerivedProofValue(sd.reveal.proof.proofValue).val.mandatoryIndexes) >= 2
    /\ parseDerivedProofValue(sd.reveal.proof.proofValue).val.mandatoryIndexes[1] = 0
    /\ parseDerivedProofValue(sd.reveal.proof.proofValue).val.mandatoryIndexes[2] = 1
    /\ parseDerivedProofValue(sd.reveal.proof.proofValue).val.signatures # <<>>

(***************************************************************************)
(* ecdsa-sd-2023 whole and step by step: the flows of SpecSd together with *)
(* the concurrent signing and checking of SpecSign.                        *)
(***************************************************************************)
SpecSdSign == (SdInit \/ SignInit) /\ [][SdNext \/ SignNext]_vars

\* C25: verifySd returns true exactly when the base signature verifies over
\* proofHash || publicKey || mandatoryHash under the issuer's public key and
\* each signature verifies over its non-mandatory N-Quad under the public
\* key the proof carries; with the checks of the signatures completing in
\* any order, one failed check makes the result false.
C25_VerifiedIffEveryCheck ==
    /\ (sd.pc \in {"verified", "reverified"} /\ IsOk(sd.result)) =>
         LET proof == sd.reveal.proof
             data == createVerifyData(oracle, Delete(sd.reveal, "proof"), proof,
                                      sd.verifyCurve).val
             keypair == ECKeypair_import(
                          retrieveVerificationMethod(proof.verificationMethod).val,
                          sd.verifyCurve).val
             publicCryptoKey ==
               materialToPublicKey(
                 multibaseToMaterial(base58btc_encode(data.publicKey), "public", P256).val,
                 P256).val
         IN sd.result.val.verified =
              (/\ subtle_verify(oracle, IF sd.verifyCurve = P256 THEN "SHA-256"
                                        ELSE "SHA-384",
                                keypair.publicKey, data.baseSignature,
                                RawBytes(data.proofHash \o data.publicKey
                                           \o data.mandatoryHash))
               /\ \A i \in 1..Len(data.signatures) :
                    subtle_verify(oracle, "SHA-256", publicCryptoKey,
                                  data.signatures[i],
                                  TextEncode(<<data.nonMandatory[i]>>)))
    /\ sd.pc = "checked" =>
         sd.verified =
           (/\ sd.verificationCheck
            /\ \A i \in 1..Len(sd.signatures) :
                 subtle_verify(oracle, "SHA-256",
                               PublicCryptoKey(P256, KeyX(ScopedKeyId), KeyY(ScopedKeyId)),
                               sd.signatures[i],
                               TextEncode(<<sd.nonMandatory[i][2]>>)))

\* The base signature has verified, the check of the last of four
\* signatures has completed first and failed, the others have passed after
\* it, and the result is false.
C25_OneCheckFailedFirst ==
    /\ sd.pc = "checked" /\ sd.verificationCheck /\ ~sd.verified
    /\ Len(sd.verificationChecks) = 4
    /\ sd.completed[1] = 4
    /\ sd.verificationChecks = <<TRUE, TRUE, TRUE, FALSE>>

(***************************************************************************)
(* ecdsa-sd-2023 with proof options that carry an @context of their own:   *)
(* none, that of the document, or another one.                             *)
(***************************************************************************)
ContextProofOptions ==
    {SignProofOptions}
      \cup { [type |-> SignProofOptions.type,
              cryptosuite |-> SignProofOptions.cryptosuite,
              created |-> SignProofOptions.created,
              verificationMethod |-> SignProofOptions.verificationMethod,
              proofPurpose |-> SignProofOptions.proofPurpose,
              context |-> context] :
             context \in {"https://www.w3.org/ns/credentials/v2",
                          "https://w3id.org/security/data-integrity/v2"} }

SdContextInit ==
    /\ \E c \in Curves : \E d \in SdDocuments : \E p \in ContextProofOptions :
         \E mp \in PointerLists :
           sd = [pc |-> "start", curve |-> c, document |-> d, options |-> p,
                 mandatoryPointers |-> mp, selectivePointers |-> <<>>,
                 config |-> Err("unset"), proof |-> Err("unset"), secured |-> d,
                 reveal |-> d, how |-> "none", verifyCurve |-> c,
                 result |-> Err("unset"), calls |-> <<>>]
    /\ codec = Idle /\ rj = Idle /\ oracle = <<>> /\ kp = Idle

SpecSdContext == SdContextInit /\ [][SdNext]_vars

\* C26: the proof configuration the verifier hashes is the one the issuer
\* has hashed, which is the proof options with the @context of the document
\* in the place of any @context of their own and without a proofValue.
C26_SameProofConfiguration ==
    (sd.pc = "verified" /\ sd.how = "none") =>
      /\ IsOk(sd.config)
      /\ sd.config.val =
           rdfc_normalize(Delete(Assign(sd.options, "context", sd.document.context),
                                 "proofValue"))
      /\ CanonizedProof(Delete(sd.reveal, "proof"), sd.reveal.proof) = sd.config.val

\* A proof whose options carry an @context other than the document's has
\* been issued and derived from, and the verifier, on the issuer's curve,
\* has hashed another proof configuration and found the proof not to verify.
C26_OwnContextRefused ==
    /\ sd.pc = "verified" /\ sd.how = "none" /\ sd.verifyCurve = sd.curve
    /\ "context" \in DOMAIN sd.options
    /\ sd.options.context # sd.document.context
    /\ sd.reveal.context = sd.document.context
    /\ CanonizedProof(Delete(sd.reveal, "proof"), sd.reveal.proof) # sd.config.val
    /\ IsOk(sd.result) /\ ~sd.result.val.verified

(***************************************************************************)
(* The HMAC key of the base proof, under SpecSd.                           *)
(***************************************************************************)
\* The HMAC computations made so far with the hash of the issuer's curve.
HmacsMade ==
    { i \in 1..Len(oracle) :
        oracle[i].kind = "hmac" /\ oracle[i].alg = curveToDigestAlgorithm(sd.curve).val }

\* C27: on either curve the HMAC key of the base-proof transform is as long
\* as the digest of the hash its HMAC uses, SHA-256 on P-256 and SHA-384 on
\* P-384, and the hmacKey of the base proof value is that key.
C27_HmacKeyOfDigestLength ==
    (sd.pc = "secured" /\ sd.how = "none") =>
      /\ BaseProofValue.hmacKey = RandomHmacKey
      /\ \A i \in HmacsMade : oracle[i].key = BaseProofValue.hmacKey
      /\ Len(BaseProofValue.hmacKey) =
           DigestLength(IF sd.curve = P256 THEN "SHA-256" ELSE "SHA-384")

\* A base proof on P-384 for a document with a blank node: the label has
\* been made with HMAC-SHA-384 under a key of 32 bytes, which is the hmacKey
\* of the proof value.
C27_ShortKeyOnP384 ==
    /\ sd.pc = "secured" /\ sd.how = "none" /\ sd.curve = P384
    /\ HmacsMade # {}
    /\ \A i \in HmacsMade : oracle[i].key = BaseProofValue.hmacKey
    /\ Len(BaseProofValue.hmacKey) = 32
    /\ DigestLength("SHA-384") = 48

(***************************************************************************)
(* serializeSd called again and again on the same hash data: each call     *)
(* makes its proof-scoped key pair with generateKey, which returns a key   *)
(* pair it has not returned before, and leaves behind what it returns;     *)
(* core.ts declares no variable outside its functions.  MaxCalls bounds    *)
(* the calls.                                                              *)
(***************************************************************************)
MaxCalls == 2

\* The P-256 key pairs generateKey may return: neither is the issuer's.
GeneratedKeyIds == {ScopedKeyId, 4}

ScopedInit ==
    /\ \E c \in Curves : \E d \in SdDocuments : \E mp \in PointerLists :
         \E p \in { q \in SdProofOptions : IsOk(configSd(d, q)) } :
           \E t \in { transformSd(<<>>, d, c, p, mp, RandomHmacKey) } :
             \E h \in { hashSd(t.o, t.val, configSd(d, p).val, c) } :
               /\ IsOk(t) /\ IsOk(h)
               /\ sd = [pc |-> "hashed", curve |-> c, options |-> p,
                        hashData |-> h.val, generated |-> <<>>, returned |-> <<>>]
               /\ oracle = h.o
    /\ codec = Idle /\ rj = Idle /\ kp = Idle

\* A faulty ProofScopedKeyPair: the key pair of the first call is kept in a
\* variable of the module and used again.
ProofScopedKeyPair_kept(generated, fresh) ==
    IF generated # <<>> THEN generated[1] ELSE fresh

\* new ECKeypair(localCurve) and initialize(): the key pair generateKey
\* returns, whatever the calls before have generated.
ProofScopedKeyPair(generated, fresh) == fresh

\* One call of serializeSd, from the generation of its key pair to its
\* return or its error.
SerializeSd ==
    /\ sd.pc = "hashed" /\ Len(sd.returned) < MaxCalls
    /\ \E fresh \in GeneratedKeyIds \ { sd.generated[i] : i \in 1..Len(sd.generated) } :
         \E scoped \in { ProofScopedKeyPair(sd.generated, fresh) } :
           \E r \in { serializeSd(oracle, sd.hashData, sd.curve, sd.options, scoped) } :
             /\ sd' = [sd EXCEPT !.generated = Append(sd.generated, scoped),
                                 !.returned = Append(sd.returned,
                                                     [err |-> r.err, val |-> r.val])]
             /\ oracle' = r.o
    /\ UNCHANGED <<kp, codec, rj>>

ScopedNext == SerializeSd

SpecScoped == ScopedInit /\ [][ScopedNext]_vars

\* The bytes `part` stand somewhere in `bytes`.
Contains(bytes, part) ==
    \E at \in 0..(Len(bytes) - Len(part)) : SubSeq(bytes, at + 1, at + Len(part)) = part

\* C28: what a call of serializeSd returns holds, of the proof-scoped key
\* pair of that call, the public key as publicKey and the private scalar in
\* none of baseSignature, publicKey, hmacKey and signatures, the
\* mandatoryPointers being those of the hash data; nothing but the returned
\* values is left of a call; and no two calls have the same key pair.
C28_ScopedKeyPairOfOneCall ==
    sd.pc = "hashed" =>
      /\ Len(sd.generated) = Len(sd.returned)
      /\ \A i \in 1..Len(sd.returned) :
           IsOk(sd.returned[i]) =>
             LET value == parseBaseProofValue(sd.returned[i].val).val
                 d == KeyD(sd.generated[i])
             IN /\ value.publicKey =
                     <<128, 36>> \o CompressedPoint(KeyX(sd.generated[i])
                                                      \o KeyY(sd.generated[i]))
                /\ ~Contains(value.baseSignature, d)
                /\ ~Contains(value.publicKey, d)
                /\ ~Contains(value.hmacKey, d)
                /\ \A j \in 1..Len(value.signatures) : ~Contains(value.signatures[j], d)
                /\ value.mandatoryPointers = sd.hashData.mandatoryPointers
      /\ \A i, j \in 1..Len(sd.returned) :
           i # j =>
             /\ sd.generated[i] # sd.generated[j]
             /\ (IsOk(sd.returned[i]) /\ IsOk(sd.returned[j])) =>
                  parseBaseProofValue(sd.returned[i].val).val.publicKey
                    # parseBaseProofValue(sd.returned[j].val).val.publicKey

\* Two calls on the same hash data have returned two base proof values with
\* signatures, under two proof-scoped public keys.
C28_TwoCallsTwoKeys ==
    /\ sd.pc = "hashed" /\ Len(sd.returned) = 2
    /\ IsOk(sd.returned[1]) /\ IsOk(sd.returned[2])
    /\ parseBaseProofValue(sd.returned[1].val).val.signatures # <<>>
    /\ parseBaseProofValue(sd.returned[1].val).val.publicKey
         # parseBaseProofValue(sd.returned[2].val).val.publicKey

(***************************************************************************)
(* jwkToKey, under SpecKey.                                                *)
(***************************************************************************)
JwkImported == kp.pc = "jwkImported"

\* C29, as stated: jwkToKey imports a key only from a JWK of kty EC and crv
\* P-256 or P-384 whose d is present exactly when the flag is private; a
\* private import without d raises DECODING_ERROR, another kty or crv raises
\* INVALID_KEYPAIR_CONTENT, and a key imported as public has no private
\* scalar.
C29_DExactlyWhenPrivate ==
    JwkImported =>
      /\ IsOk(kp.res) =>
           /\ kp.jwk.kty = JWK_TYPE /\ kp.jwk.crv \in Curves
           /\ (kp.jwk.d # <<>>) <=> (kp.flag = "private")
      /\ (kp.flag = "private" /\ kp.jwk.d = <<>>) => kp.res.err = DECODING_ERROR
      /\ (kp.jwk.kty # JWK_TYPE \/ kp.jwk.crv \notin Curves) =>
           kp.res.err = "INVALID_KEYPAIR_CONTENT"
      /\ (IsOk(kp.res) /\ kp.flag = "public") =>
           kp.res.val.type = "public" /\ kp.res.val.d = <<>>

\* C29, amended: a key is imported only from a JWK of kty EC and crv P-256
\* or P-384 that has a d when the flag is private; a private import without
\* d raises DECODING_ERROR whatever kty and crv are, any other import with
\* another kty or crv raises INVALID_KEYPAIR_CONTENT; a key imported as
\* private has the scalar of d, and a key imported as public is the point
\* (x, y) without a private scalar, whether or not the JWK has a d.
C29_DRequiredWhenPrivate ==
    JwkImported =>
      /\ IsOk(kp.res) =>
           /\ kp.jwk.kty = JWK_TYPE /\ kp.jwk.crv \in Curves
           /\ kp.flag = "private" => kp.jwk.d # <<>>
      /\ (kp.flag = "private" /\ kp.jwk.d = <<>>) => kp.res.err = DECODING_ERROR
      /\ (/\ ~(kp.flag = "private" /\ kp.jwk.d = <<>>)
          /\ (kp.jwk.kty # JWK_TYPE \/ kp.jwk.crv \notin Curves)) =>
           kp.res.err = "INVALID_KEYPAIR_CONTENT"
      /\ (IsOk(kp.res) /\ kp.flag = "private") =>
           /\ kp.res.val.type = "private"
           /\ kp.jwk.d = B64Body(kp.res.val.d)
      /\ (IsOk(kp.res) /\ kp.flag = "public") =>
           /\ kp.res.val.type = "public" /\ kp.res.val.d = <<>>
           /\ kp.jwk.x = B64Body(kp.res.val.x) /\ kp.jwk.y = B64Body(kp.res.val.y)

\* A JWK with a d and no key_ops has been imported as a public key.
C29_PublicImportDropsD ==
    /\ JwkImported /\ kp.flag = "public"
    /\ kp.jwk.d # <<>> /\ kp.jwk.key_ops = <<>>
    /\ IsOk(kp.res) /\ kp.res.val.type = "public" /\ kp.res.val.d = <<>>

(***************************************************************************)
(* The suites and the objects they are handed.  A JavaScript object is a   *)
(* cell of `heap`, a reference is a cell and a path in it (empty, or the   *)
(* member "proof" of a secured document); an assignment or a delete        *)
(* changes the cell the reference points into.  Each method is followed    *)
(* through its structuredClone calls, assignments and deletes, up to its   *)
(* return or to where it raises; what it computes is what the functions    *)
(* above compute from the values it reads.  The caller keeps the document  *)
(* and the proof options it has passed and puts each proof it gets into a  *)
(* new document.                                                           *)
(***************************************************************************)
Ref(cell, path) == [cell |-> cell, path |-> path]
NoRef == Ref(0, <<>>)

HeapRead(heap, ref) ==
    IF ref.path = <<>> THEN heap[ref.cell]
    ELSE IF ref.path[1] \in DOMAIN heap[ref.cell] THEN heap[ref.cell][ref.path[1]]
    ELSE <<>>

HeapWrite(heap, ref, value) ==
    IF ref.path = <<>> THEN [heap EXCEPT ![ref.cell] = value]
    ELSE [heap EXCEPT ![ref.cell] = Assign(heap[ref.cell], ref.path[1], value)]

\* object[name] = value and delete object[name]
HeapAssign(heap, ref, name, value) ==
    HeapWrite(heap, ref, Assign(HeapRead(heap, ref), name, value))
HeapDelete(heap, ref, name) ==
    HeapWrite(heap, ref, Delete(HeapRead(heap, ref), name))

\* A new object with the given members, as an object literal makes it.
HeapNew(heap, value) == [heap |-> Append(heap, value), ref |-> Ref(Len(heap) + 1, <<>>)]

\* A faulty structuredClone: the object itself is handed back.
structuredClone_sameObject(heap, ref) == [heap |-> heap, ref |-> ref]

\* structuredClone(object): a new object with equal members.
structuredClone(heap, ref) == HeapNew(heap, HeapRead(heap, ref))

SuiteName(suite) ==
    CASE suite = "rdfc" -> SUITE_RDFC [] suite = "jcs" -> SUITE_JCS [] OTHER -> SUITE_SD

InputProofOptions(suite) ==
    { [type |-> t, cryptosuite |-> SuiteName(suite), created |-> cr,
       verificationMethod |-> "did:example:issuer#p256",
       proofPurpose |-> "assertionMethod"] :
        t \in {GENERAL_PROOF_TYPE, "Ed25519Signature2020"},
        cr \in {Undefined, "1970-01-01T00:00:01Z", "yesterday"} }
      \cup { [type |-> GENERAL_PROOF_TYPE, cryptosuite |-> SuiteName(suite),
              created |-> Undefined,
              verificationMethod |-> "did:example:issuer#p256",
              proofPurpose |-> "assertionMethod",
              context |-> "https://w3id.org/security/data-integrity/v2"] }

InputPointers == {<<>>, <<PointerName>>}

\* The caller holds a document and proof options, in the cells 1 and 2.
InputsInit ==
    /\ \E su \in {"rdfc", "jcs", "sd"} : \E c \in Curves : \E d \in SdDocuments :
         \E p \in InputProofOptions(su) : \E mp \in InputPointers :
           sd = [pc |-> "given", suite |-> su, curve |-> c, heap |-> <<d, p>>,
                 document |-> Ref(1, <<>>), proof |-> Ref(2, <<>>),
                 mandatoryPointers |-> mp, before |-> <<d, p>>,
                 returned |-> NoRef, result |-> Err("unset")]
    /\ codec = Idle /\ rj = Idle /\ oracle = <<>> /\ kp = Idle

\* The configuration function of a suite gets as far as its assignment of
\* @context: configRdfc and configSd have one, configJcs has none.
ContextAssigned(suite, document, proof) ==
    CASE suite = "rdfc" -> IsOk(configRdfc(document, proof))
      [] suite = "sd" -> IsOk(configSd(document, proof))
      [] OTHER -> FALSE

\* createProof: proof = structuredClone(options.proof); the configuration
\* function clones options.proof again and assigns @context to its clone;
\* proof.proofValue is assigned once the proof value is there.
InputsCreateProof ==
    /\ sd.pc = "given"
    /\ \E document \in {HeapRead(sd.heap, sd.document)} :
       \E options \in {HeapRead(sd.heap, sd.proof)} :
       \E r \in { CASE sd.suite = "rdfc" ->
                         EcdsaRdfc2019_createProof(oracle, document, sd.curve, options)
                    [] sd.suite = "jcs" ->
                         EcdsaJcs2019_createProof(oracle, document, sd.curve, options)
                    [] OTHER ->
                         EcdsaSd2023_createProof(oracle, document, sd.curve, options,
                                                 sd.mandatoryPointers, RandomHmacKey,
                                                 ScopedKeyId) } :
       \E proof \in {structuredClone(sd.heap, sd.proof)} :
       \E proofConfig \in {structuredClone(proof.heap, sd.proof)} :
       \E configured \in
            { IF ContextAssigned(sd.suite, document, options)
              THEN HeapAssign(proofConfig.heap, proofConfig.ref, "context",
                              document.context)
              ELSE proofConfig.heap } :
         /\ sd' = [sd EXCEPT
                     !.pc = IF IsOk(r) THEN "created" ELSE "failed",
                     !.before = sd.heap,
                     !.heap = IF IsOk(r)
                              THEN HeapAssign(configured, proof.ref, "proofValue",
                                              r.val.proofValue)
                              ELSE configured,
                     !.returned = IF IsOk(r) THEN proof.ref ELSE NoRef,
                     !.result = [err |-> r.err, val |-> r.val]]
         /\ oracle' = r.o
    /\ UNCHANGED <<kp, codec, rj>>

\* The document the caller makes of a document and the proof returned.
Secured(heap, document, proof) ==
    HeapNew(heap, Assign(document, "proof", HeapRead(heap, proof)))

\* deriveProof: unsecuredCredential = structuredClone(securedCredential),
\* delete unsecuredCredential.proof, newProof = structuredClone(
\* securedCredential.proof), and newProof.proofValue is assigned.
InputsDeriveProof ==
    /\ sd.pc = "created" /\ sd.suite = "sd"
    /\ \E given \in {Secured(sd.heap, HeapRead(sd.heap, sd.document), sd.returned)} :
       \E securedDocument \in {HeapRead(given.heap, given.ref)} :
       \E r \in { EcdsaSd2023_deriveProof(oracle, securedDocument, sd.curve,
                                          <<PointerAge>>) } :
       \E unsecuredCredential \in {structuredClone(given.heap, given.ref)} :
       \E deleted \in {HeapDelete(unsecuredCredential.heap, unsecuredCredential.ref,
                                  "proof")} :
       \E newProof \in {structuredClone(deleted, Ref(given.ref.cell, <<"proof">>))} :
         /\ sd' = [sd EXCEPT
                     !.pc = IF IsOk(r) THEN "derived" ELSE "failed",
                     !.document = given.ref,
                     !.proof = Ref(given.ref.cell, <<"proof">>),
                     !.before = given.heap,
                     !.heap = IF IsOk(r)
                              THEN HeapAssign(newProof.heap, newProof.ref, "proofValue",
                                              r.val.proofValue)
                              ELSE newProof.heap,
                     !.returned = IF IsOk(r) THEN newProof.ref ELSE NoRef,
                     !.result = [err |-> r.err, val |-> r.val]]
         /\ oracle' = r.o
    /\ UNCHANGED <<kp, codec, rj>>

\* verifyProof: unsecuredCredential = structuredClone(securedCredential),
\* delete unsecuredCredential.proof, and a clone of securedCredential.proof;
\* EcdsaRdfc2019 deletes the proofValue of its clone, and configRdfc clones
\* that again and assigns @context; _hashCanonizedProof of ecdsa-sd-2023
\* makes a new object of the proof and deletes its proofValue.
InputsVerifyProof ==
    /\ \/ sd.pc = "created" /\ sd.suite \in {"rdfc", "jcs"}
       \/ sd.pc = "derived"
    /\ \E given \in
            { Secured(sd.heap,
                      IF sd.suite = "sd"
                      THEN selectJsonLd(sd.mandatoryPointers \o <<PointerAge>>,
                                        HeapRead(sd.heap, sd.document))
                      ELSE HeapRead(sd.heap, sd.document),
                      sd.returned) } :
       \E securedDocument \in {HeapRead(given.heap, given.ref)} :
       \E r \in { CASE sd.suite = "rdfc" ->
                         EcdsaRdfc2019_verifyProof(oracle, securedDocument, sd.curve)
                    [] sd.suite = "jcs" ->
                         EcdsaJcs2019_verifyProof(oracle, securedDocument, sd.curve)
                    [] OTHER ->
                         Bind(EcdsaSd2023_verifyProof(oracle, securedDocument, sd.curve),
                              LAMBDA v : [err |-> v.err, val |-> v.val, o |-> v.o]) } :
       \E unsecuredCredential \in {structuredClone(given.heap, given.ref)} :
       \E deleted \in {HeapDelete(unsecuredCredential.heap, unsecuredCredential.ref,
                                  "proof")} :
       \E proof \in {structuredClone(deleted, Ref(given.ref.cell, <<"proof">>))} :
       \E stripped \in
            { IF sd.suite = "sd"
              THEN HeapNew(proof.heap,
                           Delete(IF "context" \in DOMAIN HeapRead(proof.heap, proof.ref)
                                  THEN HeapRead(proof.heap, proof.ref)
                                  ELSE Assign(HeapRead(proof.heap, proof.ref), "context",
                                              securedDocument.context),
                                  "proofValue"))
              ELSE [heap |-> HeapDelete(proof.heap, proof.ref, "proofValue"),
                    ref |-> proof.ref] } :
       \E proofConfig \in
            { IF sd.suite = "sd" THEN stripped
              ELSE structuredClone(stripped.heap, stripped.ref) } :
         /\ sd' = [sd EXCEPT
                     !.pc = "verified",
                     !.document = given.ref,
                     !.proof = Ref(given.ref.cell, <<"proof">>),
                     !.before = given.heap,
                     !.heap = IF ContextAssigned(sd.suite,
                                                 Delete(securedDocument, "proof"),
                                                 HeapRead(stripped.heap, stripped.ref))
                                 /\ sd.suite = "rdfc"
                              THEN HeapAssign(proofConfig.heap, proofConfig.ref, "context",
                                              securedDocument.context)
                              ELSE proofConfig.heap,
                     !.returned = NoRef,
                     !.result = [err |-> r.err, val |-> r.val]]
         /\ oracle' = r.o
    /\ UNCHANGED <<kp, codec, rj>>

InputsNext == InputsCreateProof \/ InputsDeriveProof \/ InputsVerifyProof

SpecInputs == InputsInit /\ [][InputsNext]_vars

\* C30: after createProof, deriveProof and verifyProof of every suite,
\* returned or raised, the document and the proof options or the proof in
\* the document are what they were before the call, as is every object that
\* was there before; the proof createProof or deriveProof returns is the
\* proof it was given in every member but proofValue.
C30_InputsUnchanged ==
    sd.pc \in {"created", "derived", "verified", "failed"} =>
      /\ HeapRead(sd.heap, sd.document) = HeapRead(sd.before, sd.document)
      /\ HeapRead(sd.heap, sd.proof) = HeapRead(sd.before, sd.proof)
      /\ \A cell \in 1..Len(sd.before) : sd.heap[cell] = sd.before[cell]
      /\ sd.returned # NoRef =>
           /\ sd.returned.cell > Len(sd.before)
           /\ HeapRead(sd.heap, sd.returned) = sd.result.val
           /\ Delete(HeapRead(sd.heap, sd.returned), "proofValue")
                = Delete(HeapRead(sd.before, sd.proof), "proofValue")

\* deriveProof has returned a proof with a proof value of its own, and the
\* secured document it was given still has its base proof.
C30_DerivedBesideBase ==
    /\ sd.pc = "derived" /\ sd.returned # NoRef
    /\ "proof" \in DOMAIN HeapRead(sd.heap, sd.document)
    /\ HeapRead(sd.heap, sd.returned).proofValue
         # HeapRead(sd.heap, sd.proof).proofValue

====
